---- MODULE Spec2Model ----
(***************************************************************************)
(* Model of be/src/storage/tablet_meta_manager.cpp: the tablet metadata    *)
(* layer on top of an ordered key-value store.                             *)
(*                                                                         *)
(* A key is a sequence of bytes (0..255) compared in unsigned byte order,  *)
(* a stored value is a tuple whose first element is the message tag.       *)
(* Fixed-width integers keep their two's-complement behaviour; their width *)
(* is SizeofU64 / SizeofU32 bytes (scaled down from 8 / 4).                *)
(***************************************************************************)
EXTENDS Integers, Sequences, FiniteSets, TLC

VARIABLES store,   \* the KV store (one column family): key -> value
          pre,     \* the store as it was when the last operation was called
          last,    \* the last operation: name, arguments, status, outputs
          pc,      \* position of the in-flight rowset_commit call
          wb,      \* the WriteBatch the in-flight call has staged so far
          call,    \* arguments of the in-flight call
          seen     \* what a concurrent reader saw on its last read

vars == <<store, pre, last, pc, wb, call, seen>>

(***************************************************************************)
(* Integer widths                                                          *)
(***************************************************************************)
SizeofU64 == 2
SizeofU32 == 1

RECURSIVE Pow(_, _)
Pow(b, n) == IF n = 0 THEN 1 ELSE b * Pow(b, n - 1)

Mod64 == Pow(256, SizeofU64)
Mod32 == Pow(256, SizeofU32)
UINT64_MAX == Mod64 - 1
INT64_MAX == (Mod64 \div 2) - 1
UINT32_MAX == Mod32 - 1
INT32_MAX == (Mod32 \div 2) - 1

\* conversion to uint64_t / int64_t / uint32_t (wraps modulo 2^w)
ToU64(x) == x % Mod64
ToI64(x) == IF ToU64(x) > INT64_MAX THEN ToU64(x) - Mod64 ELSE ToU64(x)
ToU32(x) == x % Mod32
ToI32(x) == IF ToU32(x) > (Mod32 \div 2) - 1 THEN ToU32(x) - Mod32 ELSE ToU32(x)

(***************************************************************************)
(* Byte strings                                                            *)
(***************************************************************************)
HEADER_PREFIX == <<116, 97, 98, 108, 101, 116, 109, 101, 116, 97, 95>>  \* "tabletmeta_"
TABLET_META_LOG_PREFIX == <<116, 108, 103, 95>>                         \* "tlg_"
\* a rowset prefix that is the log prefix
TABLET_META_ROWSET_PREFIX_tlg == TABLET_META_LOG_PREFIX
TABLET_META_ROWSET_PREFIX == <<116, 114, 115, 95>>                      \* "trs_"
TABLET_META_PENDING_ROWSET_PREFIX == <<116, 112, 114, 95>>              \* "tpr_"
TABLET_DELVEC_PREFIX == <<100, 108, 118, 95>>                           \* "dlv_"

\* put_fixed64_le(&s, BigEndian::FromHost64(x)): the big-endian bytes of x
be64(x) == [i \in 1..SizeofU64 |-> (ToU64(x) \div Pow(256, SizeofU64 - i)) % 256]
be32(x) == [i \in 1..SizeofU32 |-> (ToU32(x) \div Pow(256, SizeofU32 - i)) % 256]

\* BigEndian::ToHost64(UNALIGNED_LOAD64(p)): the unsigned value of the bytes
RECURSIVE BigEndianLoad(_)
BigEndianLoad(bytes) ==
    IF bytes = <<>> THEN 0
    ELSE BigEndianLoad(SubSeq(bytes, 1, Len(bytes) - 1)) * 256 + bytes[Len(bytes)]

Load64(key, off) == BigEndianLoad(SubSeq(key, off + 1, off + SizeofU64))
Load32(key, off) == BigEndianLoad(SubSeq(key, off + 1, off + SizeofU32))

StartsWith(key, prefix) ==
    /\ Len(key) >= Len(prefix)
    /\ SubSeq(key, 1, Len(prefix)) = prefix

\* bytewise comparison (memcmp, then the shorter string first)
RECURSIVE KeyLess(_, _)
KeyLess(a, b) ==
    IF b = <<>> THEN FALSE
    ELSE IF a = <<>> THEN TRUE
    ELSE IF Head(a) # Head(b) THEN Head(a) < Head(b)
    ELSE KeyLess(Tail(a), Tail(b))

KeyLeq(a, b) == a = b \/ KeyLess(a, b)

\* decimal text of an integer, as strings::Substitute prints it
RECURSIVE Digits(_)
Digits(n) == IF n < 10 THEN <<48 + n>> ELSE Digits(n \div 10) \o <<48 + (n % 10)>>

Itoa(n) == IF n < 0 THEN <<45>> \o Digits(-n) ELSE Digits(n)

(***************************************************************************)
(* The key-value store and its write batch                                 *)
(***************************************************************************)
EmptyStore == [k \in {} |-> <<>>]

StorePut(s, k, v) == [x \in (DOMAIN s) \cup {k} |-> IF x = k THEN v ELSE s[x]]
StoreDelete(s, k) == [x \in (DOMAIN s) \ {k} |-> s[x]]
\* deletes the keys of [lower, upper)
StoreDeleteRange(s, lower, upper) ==
    [x \in {k \in DOMAIN s : ~(KeyLeq(lower, k) /\ KeyLess(k, upper))} |-> s[x]]

BatchPut(k, v) == <<"Put", k, v>>
BatchDelete(k) == <<"Delete", k>>
BatchDeleteRange(lower, upper) == <<"DeleteRange", lower, upper>>

ApplyOp(s, op) ==
    CASE op[1] = "Put" -> StorePut(s, op[2], op[3])
      [] op[1] = "Delete" -> StoreDelete(s, op[2])
      [] op[1] = "DeleteRange" -> StoreDeleteRange(s, op[2], op[3])

\* the staged mutations take effect in the order they were staged
RECURSIVE ApplyBatch(_, _)
ApplyBatch(s, batch) ==
    IF batch = <<>> THEN s ELSE ApplyBatch(ApplyOp(s, Head(batch)), Tail(batch))

\* KVStore::write_batch: all staged mutations or, on an I/O failure, none
write_batch(s, batch, io_ok) ==
    IF io_ok THEN [status |-> "OK", store |-> ApplyBatch(s, batch)]
    ELSE [status |-> "IOError", store |-> s]

\* KVStore::put / KVStore::remove: one key, or an I/O failure
kv_put(s, k, v, io_ok) ==
    IF io_ok THEN [status |-> "OK", store |-> StorePut(s, k, v)]
    ELSE [status |-> "IOError", store |-> s]

kv_remove(s, k, io_ok) ==
    IF io_ok THEN [status |-> "OK", store |-> StoreDelete(s, k)]
    ELSE [status |-> "IOError", store |-> s]

RECURSIVE SortedKeys(_)
SortedKeys(S) ==
    IF S = {} THEN <<>>
    ELSE LET m == CHOOSE k \in S : \A j \in S : KeyLeq(k, j)
         IN <<m>> \o SortedKeys(S \ {m})

\* KVStore::iterate: the keys that start with prefix, in ascending order
iterate(s, prefix) == SortedKeys({k \in DOMAIN s : StartsWith(k, prefix)})

\* KVStore::iterate_range: the keys of [lower, upper), in ascending order
iterate_range(s, lower, upper) ==
    SortedKeys({k \in DOMAIN s : KeyLeq(lower, k) /\ KeyLess(k, upper)})

(***************************************************************************)
(* KeyCodec                                                                *)
(***************************************************************************)
encode_tablet_meta_key(tablet_id, schema_hash) ==
    HEADER_PREFIX \o Itoa(tablet_id) \o <<95>> \o Itoa(schema_hash)

\* the "$0$1_" prefix of the header scans
tablet_meta_prefix(tablet_id) == HEADER_PREFIX \o Itoa(tablet_id) \o <<95>>

\* value of a run of decimal digits, -1 when the run is empty or holds another byte
RECURSIVE ParseDigits(_)
ParseDigits(bytes) ==
    IF bytes = <<>> THEN -1
    ELSE LET d == bytes[Len(bytes)] - 48
             front == SubSeq(bytes, 1, Len(bytes) - 1)
         IN IF d < 0 \/ d > 9 THEN -1
            ELSE IF front = <<>> THEN d
            ELSE IF ParseDigits(front) < 0 THEN -1
            ELSE ParseDigits(front) * 10 + d

\* safe_strto64 / safe_strto32: a signed decimal within [-max - 1, max]
safe_strto(bytes, max) ==
    LET neg == bytes # <<>> /\ Head(bytes) = 45
        mag == ParseDigits(IF neg THEN Tail(bytes) ELSE bytes)
    IN IF mag < 0 THEN [ok |-> FALSE, value |-> 0]
       ELSE IF neg THEN [ok |-> mag <= max + 1, value |-> -mag]
       ELSE [ok |-> mag <= max, value |-> mag]

\* position of the first '_' of bytes, 0 when there is none (memchr)
RECURSIVE FindSep(_, _)
FindSep(bytes, i) ==
    IF i > Len(bytes) THEN 0 ELSE IF bytes[i] = 95 THEN i ELSE FindSep(bytes, i + 1)

DecodeFail == [ok |-> FALSE, tablet_id |-> 0, id |-> 0]

decode_tablet_meta_key(key) ==
    IF Len(key) <= Len(HEADER_PREFIX) + 1 THEN DecodeFail
    ELSE LET rest == SubSeq(key, Len(HEADER_PREFIX) + 1, Len(key))
             sep == FindSep(rest, 1)
         IN IF sep = 0 THEN DecodeFail
            ELSE LET t == safe_strto(SubSeq(rest, 1, sep - 1), INT64_MAX)
                     h == safe_strto(SubSeq(rest, sep + 1, Len(rest)), INT32_MAX)
                 IN IF ~t.ok \/ ~h.ok THEN DecodeFail
                    ELSE [ok |-> TRUE, tablet_id |-> t.value, id |-> h.value]

encode_meta_log_key(id, logid) == TABLET_META_LOG_PREFIX \o be64(id) \o be64(logid)

\* decode_meta_log_key that loads the log id as a signed integer
decode_meta_log_key_signed(key) ==
    IF Len(key) # Len(TABLET_META_LOG_PREFIX) + SizeofU64 * 2 THEN DecodeFail
    ELSE [ok |-> TRUE,
          tablet_id |-> ToI64(Load64(key, Len(TABLET_META_LOG_PREFIX))),
          id |-> ToI64(Load64(key, Len(TABLET_META_LOG_PREFIX) + SizeofU64))]

decode_meta_log_key(key) ==
    IF Len(key) # Len(TABLET_META_LOG_PREFIX) + SizeofU64 * 2 THEN DecodeFail
    ELSE [ok |-> TRUE,
          tablet_id |-> ToI64(Load64(key, Len(TABLET_META_LOG_PREFIX))),
          id |-> Load64(key, Len(TABLET_META_LOG_PREFIX) + SizeofU64)]

encode_meta_rowset_key(id, rowsetid) == TABLET_META_ROWSET_PREFIX \o be64(id) \o be32(rowsetid)

decode_meta_rowset_key(key) ==
    IF Len(key) # Len(TABLET_META_ROWSET_PREFIX) + SizeofU64 + SizeofU32 THEN DecodeFail
    ELSE [ok |-> TRUE,
          tablet_id |-> ToI64(Load64(key, Len(TABLET_META_ROWSET_PREFIX))),
          id |-> Load32(key, Len(TABLET_META_ROWSET_PREFIX) + SizeofU64)]

encode_meta_pending_rowset_key(id, version) ==
    TABLET_META_PENDING_ROWSET_PREFIX \o be64(id) \o be64(version)

decode_meta_pending_rowset_key(key) ==
    IF Len(key) # Len(TABLET_META_PENDING_ROWSET_PREFIX) + SizeofU64 + SizeofU64 THEN DecodeFail
    ELSE [ok |-> TRUE,
          tablet_id |-> ToI64(Load64(key, Len(TABLET_META_PENDING_ROWSET_PREFIX))),
          id |-> ToI64(Load64(key, Len(TABLET_META_PENDING_ROWSET_PREFIX) + SizeofU64))]

\* encode_del_vector_key that stores the version itself
encode_del_vector_key_forward(tablet_id, segment_id, version) ==
    TABLET_DELVEC_PREFIX \o be64(tablet_id) \o be32(segment_id) \o be64(version)

\* the version is stored as INT64_MAX - version, so that newer versions sort first
encode_del_vector_key(tablet_id, segment_id, version) ==
    TABLET_DELVEC_PREFIX \o be64(tablet_id) \o be32(segment_id) \o be64(ToI64(INT64_MAX - version))

decode_del_vector_key(enc_key) ==
    [tablet_id |-> ToI64(Load64(enc_key, 4)),
     segment_id |-> Load32(enc_key, 4 + SizeofU64),
     version |-> ToI64(INT64_MAX - Load64(enc_key, 4 + SizeofU64 + SizeofU32))]

decode_del_vector_key_version(key) == ToI64(INT64_MAX - Load64(key, Len(key) - SizeofU64))

\* the fixed length of a delete-vector key
DelVecKeyLength == Len(TABLET_DELVEC_PREFIX) + SizeofU64 + SizeofU32 + SizeofU64

\* A call of decode_del_vector_key.  The only check of the key's length is a
\* DCHECK_EQ: a debug build ends the process on another length; a release build
\* loads the three fields from the fixed offsets, from the key and, for a short
\* key, from the bytes `beyond` its end (reading them is undefined).
NoDecoded == [tablet_id |-> 0, segment_id |-> 0, version |-> 0]

Builds == {"debug", "release"}

decode_del_vector_key_call(enc_key, build, beyond) ==
    IF Len(enc_key) = DelVecKeyLength
    THEN [status |-> "OK", out |-> decode_del_vector_key(enc_key)]
    ELSE IF build = "debug"
    THEN [status |-> "Abort", out |-> NoDecoded]
    ELSE [status |-> "OK",
          out |-> decode_del_vector_key(SubSeq(enc_key \o beyond, 1, DelVecKeyLength))]

(***************************************************************************)
(* Messages and their serialized form                                      *)
(***************************************************************************)
\* DelVector::save / DelVector::load: the version is not part of the bytes
DelVectorSave(delvec) == <<"DelVector", delvec.bits>>

DelVectorLoad(version, value) ==
    IF Len(value) = 2 /\ value[1] = "DelVector"
    THEN [status |-> "OK", delvec |-> [version |-> version, bits |-> value[2]]]
    ELSE [status |-> "Corruption", delvec |-> [version |-> version, bits |-> 0]]

RowsetMetaSerialize(rowset) == <<"RowsetMetaPB", rowset.rowset_seg_id, rowset.data>>

RowsetMetaParse(value) ==
    IF Len(value) = 3 /\ value[1] = "RowsetMetaPB"
    THEN [ok |-> TRUE, pb |-> [rowset_seg_id |-> value[2], data |-> value[3]]]
    ELSE [ok |-> FALSE, pb |-> [rowset_seg_id |-> 0, data |-> 0]]

\* TabletMetaLogPB with one op: OP_ROWSET_COMMIT carries an EditVersionMetaPB,
\* OP_APPLY carries an EditVersionPB
CommitLogSerialize(edit) ==
    <<"TabletMetaLogPB", "OP_ROWSET_COMMIT", edit.version.major, edit.version.minor, edit.creation_time>>

ApplyLogSerialize(version) ==
    <<"TabletMetaLogPB", "OP_APPLY", version.major, version.minor, 0>>

TabletMetaLogParse(value) ==
    IF Len(value) = 5 /\ value[1] = "TabletMetaLogPB"
    THEN [ok |-> TRUE, type |-> value[2],
          version |-> [major |-> value[3], minor |-> value[4]], creation_time |-> value[5]]
    ELSE [ok |-> FALSE, type |-> "", version |-> [major |-> 0, minor |-> 0], creation_time |-> 0]

TabletMetaSerialize(meta_pb) ==
    <<"TabletMetaPB", meta_pb.tablet_id, meta_pb.schema_hash, meta_pb.keys_type,
      meta_pb.has_updates, meta_pb.has_next_log_id, meta_pb.next_log_id>>

TabletMetaParse(value) ==
    IF Len(value) = 7 /\ value[1] = "TabletMetaPB"
    THEN [ok |-> TRUE,
          pb |-> [tablet_id |-> value[2], schema_hash |-> value[3], keys_type |-> value[4],
                  has_updates |-> value[5], has_next_log_id |-> value[6], next_log_id |-> value[7]]]
    ELSE [ok |-> FALSE,
          pb |-> [tablet_id |-> 0, schema_hash |-> 0, keys_type |-> "DUP_KEYS",
                  has_updates |-> FALSE, has_next_log_id |-> FALSE, next_log_id |-> 0]]

(***************************************************************************)
(* Delete vectors                                                          *)
(* Every operation is an operator from the store and the arguments to      *)
(* [status, store, out, batches]: the status returned, the store left      *)
(* behind, the output parameters and the number of write batches submitted *)
(***************************************************************************)
NoOut == [none |-> TRUE]

set_del_vector(s, tablet_id, segment_id, delvec, io_ok) ==
    LET key == encode_del_vector_key(tablet_id, segment_id, delvec.version)
        val == DelVectorSave(delvec)
        w == kv_put(s, key, val, io_ok)
    IN [status |-> w.status, store |-> w.store, out |-> NoOut, batches |-> 0]

\* put_del_vector: the Put staged into the batch of the caller
put_del_vector(tablet_id, segment_id, delvec) ==
    BatchPut(encode_del_vector_key(tablet_id, segment_id, delvec.version), DelVectorSave(delvec))

\* the visitor of get_del_vector loading the first record it meets
traverse_versions_newest(s, keys, version, acc) ==
    IF keys = <<>> THEN acc
    ELSE LET cv == decode_del_vector_key_version(Head(keys))
             l == DelVectorLoad(cv, s[Head(keys)])
         IN [acc EXCEPT !.latest_version = cv, !.first = FALSE, !.st = l.status,
                        !.delvec = l.delvec, !.found = TRUE]

\* the visitor of get_del_vector over the keys still to visit;
\* acc = [found, first, latest_version, st, delvec]
RECURSIVE traverse_versions(_, _, _, _)
traverse_versions(s, keys, version, acc) ==
    IF keys = <<>> THEN acc
    ELSE LET cv == decode_del_vector_key_version(Head(keys))
             a1 == IF acc.first THEN [acc EXCEPT !.latest_version = cv, !.first = FALSE] ELSE acc
         IN IF version >= cv
            THEN LET l == DelVectorLoad(cv, s[Head(keys)])
                 IN [a1 EXCEPT !.st = l.status, !.delvec = l.delvec, !.found = TRUE]
            ELSE traverse_versions(s, Tail(keys), version, a1)

\* latest_in is what the caller's *latest_version holds when the call is made
get_del_vector(s, tablet_id, segment_id, version, latest_in) ==
    LET lower == encode_del_vector_key(tablet_id, segment_id, INT64_MAX)
        upper == encode_del_vector_key(tablet_id, segment_id, 0)
        acc == traverse_versions(s, iterate_range(s, lower, upper), version,
                                 [found |-> FALSE, first |-> TRUE, latest_version |-> latest_in,
                                  st |-> "OK", delvec |-> [version |-> -1, bits |-> 0]])
    IN [status |-> IF ~acc.found THEN "NotFound" ELSE acc.st,
        store |-> s,
        out |-> [found |-> acc.found, delvec |-> acc.delvec, latest_version |-> acc.latest_version],
        batches |-> 0]

\* the visitor of list_del_vector; acc = [ret, last_segment_id]
RECURSIVE list_del_vector_visit(_, _, _)
list_del_vector_visit(keys, max_version, acc) ==
    IF keys = <<>> THEN acc
    ELSE LET d == decode_del_vector_key(Head(keys))
         IN IF d.segment_id # acc.last_segment_id /\ d.version < max_version
            THEN list_del_vector_visit(Tail(keys), max_version,
                     [ret |-> Append(acc.ret, <<d.segment_id, d.version>>),
                      last_segment_id |-> d.segment_id])
            ELSE list_del_vector_visit(Tail(keys), max_version, acc)

list_del_vector(s, tablet_id, max_version) ==
    LET lower == encode_del_vector_key(tablet_id, 0, INT64_MAX)
        upper == encode_del_vector_key(tablet_id, UINT32_MAX, 0)
        acc == list_del_vector_visit(iterate_range(s, lower, upper), max_version,
                                     [ret |-> <<>>, last_segment_id |-> UINT32_MAX])
    IN [status |-> "OK", store |-> s, out |-> [ret |-> acc.ret], batches |-> 0]

\* encode_del_vector_key computes INT64_MAX - version in int64_t: for a negative
\* version the subtraction overflows, which is undefined.  A build either lets it
\* wrap (encode_del_vector_key above) or traps and ends the process.
SignedOverflow == {"wraps", "traps"}

VersionOverflows(version) == INT64_MAX - version > INT64_MAX

\* delete_del_vector_range with the lower bound taken at end_version
delete_del_vector_range_end_inclusive(s, tablet_id, segment_id, start_version, end_version, io_ok, overflow) ==
    IF start_version = end_version
    THEN [status |-> "OK", store |-> s, out |-> NoOut, batches |-> 0]
    ELSE IF start_version > end_version
    THEN [status |-> "InvalidArgument", store |-> s, out |-> NoOut, batches |-> 0]
    ELSE IF overflow = "traps" /\ VersionOverflows(start_version - 1)
    THEN [status |-> "Abort", store |-> s, out |-> NoOut, batches |-> 0]
    ELSE LET begin_key == encode_del_vector_key(tablet_id, segment_id, end_version)
             end_key == encode_del_vector_key(tablet_id, segment_id, start_version - 1)
             w == write_batch(s, <<BatchDeleteRange(begin_key, end_key)>>, io_ok)
         IN [status |-> w.status, store |-> w.store, out |-> NoOut, batches |-> 1]

\* delete_del_vector_range without the two checks of its arguments
delete_del_vector_range_unchecked(s, tablet_id, segment_id, start_version, end_version, io_ok, overflow) ==
    IF overflow = "traps" /\ (VersionOverflows(end_version - 1) \/ VersionOverflows(start_version - 1))
    THEN [status |-> "Abort", store |-> s, out |-> NoOut, batches |-> 0]
    ELSE LET begin_key == encode_del_vector_key(tablet_id, segment_id, end_version - 1)
             end_key == encode_del_vector_key(tablet_id, segment_id, start_version - 1)
             w == write_batch(s, <<BatchDeleteRange(begin_key, end_key)>>, io_ok)
         IN [status |-> w.status, store |-> w.store, out |-> NoOut, batches |-> 1]

delete_del_vector_range(s, tablet_id, segment_id, start_version, end_version, io_ok, overflow) ==
    IF start_version = end_version
    THEN [status |-> "OK", store |-> s, out |-> NoOut, batches |-> 0]
    ELSE IF start_version > end_version
    THEN [status |-> "InvalidArgument", store |-> s, out |-> NoOut, batches |-> 0]
    ELSE IF overflow = "traps" /\ (VersionOverflows(end_version - 1) \/ VersionOverflows(start_version - 1))
    THEN [status |-> "Abort", store |-> s, out |-> NoOut, batches |-> 0]
    ELSE LET begin_key == encode_del_vector_key(tablet_id, segment_id, end_version - 1)
             end_key == encode_del_vector_key(tablet_id, segment_id, start_version - 1)
             w == write_batch(s, <<BatchDeleteRange(begin_key, end_key)>>, io_ok)
         IN [status |-> w.status, store |-> w.store, out |-> NoOut, batches |-> 1]

(***************************************************************************)
(* Rowsets and pending rowsets                                             *)
(* The statements of rowset_commit are operators on c = [store, wb]: the   *)
(* store and the WriteBatch the call has staged so far.                    *)
(***************************************************************************)
\* delete_pending_rowset(store, batch, tablet_id, version): stages the delete
delete_pending_rowset_staged(c, tablet_id, version) ==
    [c EXCEPT !.wb = Append(c.wb, BatchDelete(encode_meta_pending_rowset_key(tablet_id, version)))]

\* delete_pending_rowset(store, tablet_id, version): removes the key at once
delete_pending_rowset(s, tablet_id, version, io_ok) ==
    LET w == kv_remove(s, encode_meta_pending_rowset_key(tablet_id, version), io_ok)
    IN [status |-> w.status, store |-> w.store, out |-> NoOut, batches |-> 0]

\* rowset_commit with the log entry written by a put of its own
rowset_commit_put_log_unbatched(c, tablet_id, logid, edit) ==
    [c EXCEPT !.store = StorePut(c.store, encode_meta_log_key(tablet_id, logid),
                                 CommitLogSerialize(edit))]

rowset_commit_put_log(c, tablet_id, logid, edit) ==
    [c EXCEPT !.wb = Append(c.wb, BatchPut(encode_meta_log_key(tablet_id, logid),
                                           CommitLogSerialize(edit)))]

\* rowset_commit with the rowset written under the pending-rowset key of its id
rowset_commit_put_rowset_as_pending(c, tablet_id, rowset) ==
    [c EXCEPT !.wb = Append(c.wb, BatchPut(encode_meta_pending_rowset_key(tablet_id, rowset.rowset_seg_id),
                                           RowsetMetaSerialize(rowset)))]

rowset_commit_put_rowset(c, tablet_id, rowset) ==
    [c EXCEPT !.wb = Append(c.wb, BatchPut(encode_meta_rowset_key(tablet_id, rowset.rowset_seg_id),
                                           RowsetMetaSerialize(rowset)))]

rowset_commit_delete_obsolete(c, rowset_meta_key) ==
    IF rowset_meta_key # <<>>
    THEN [c EXCEPT !.wb = Append(c.wb, BatchDelete(rowset_meta_key))]
    ELSE c

\* rowset_commit that leaves the pending rowset of the edit version in place
rowset_commit_keep_pending(c, tablet_id, edit) == c

rowset_commit_delete_pending(c, tablet_id, edit) ==
    delete_pending_rowset_staged(c, tablet_id, edit.version.major)

rowset_commit(s, tablet_id, logid, edit, rowset, rowset_meta_key, io_ok) ==
    LET c1 == rowset_commit_put_log([store |-> s, wb |-> <<>>], tablet_id, logid, edit)
        c2 == rowset_commit_put_rowset(c1, tablet_id, rowset)
        c3 == rowset_commit_delete_obsolete(c2, rowset_meta_key)
        c4 == rowset_commit_delete_pending(c3, tablet_id, edit)
        w == write_batch(c4.store, c4.wb, io_ok)
    IN [status |-> w.status, store |-> w.store, out |-> NoOut, batches |-> 1]

\* pending_rowset_commit that leaves the record at rowset_meta_key in place
pending_rowset_commit_keep_obsolete(s, tablet_id, version, rowset, rowset_meta_key, io_ok) ==
    LET pkey == encode_meta_pending_rowset_key(tablet_id, version)
        w == write_batch(s, <<BatchPut(pkey, RowsetMetaSerialize(rowset))>>, io_ok)
    IN [status |-> w.status, store |-> w.store, out |-> NoOut, batches |-> 1]

pending_rowset_commit(s, tablet_id, version, rowset, rowset_meta_key, io_ok) ==
    LET del == IF rowset_meta_key # <<>> THEN <<BatchDelete(rowset_meta_key)>> ELSE <<>>
        pkey == encode_meta_pending_rowset_key(tablet_id, version)
        w == write_batch(s, Append(del, BatchPut(pkey, RowsetMetaSerialize(rowset))), io_ok)
    IN [status |-> w.status, store |-> w.store, out |-> NoOut, batches |-> 1]

\* The visitor passed to an iterate call accepts `take` records and returns false on
\* the last of them; with take = 0 it never returns false.

\* the visitor of rowset_iterate; acc = [yielded, aborted]
RECURSIVE rowset_iterate_visit(_, _, _, _)
rowset_iterate_visit(s, keys, take, acc) ==
    IF keys = <<>> THEN acc
    ELSE LET m == RowsetMetaParse(s[Head(keys)])
         IN IF ~m.ok THEN [acc EXCEPT !.aborted = TRUE]
            ELSE LET a1 == [acc EXCEPT !.yielded = Append(acc.yielded, m.pb)]
                 IN IF Len(a1.yielded) = take THEN a1
                    ELSE rowset_iterate_visit(s, Tail(keys), take, a1)

\* status "Abort" stands for the CHECK that ends the process
rowset_iterate(s, tablet_id, take) ==
    LET prefix == TABLET_META_ROWSET_PREFIX \o be64(tablet_id)
        acc == rowset_iterate_visit(s, iterate(s, prefix), take,
                                    [yielded |-> <<>>, aborted |-> FALSE])
    IN [status |-> IF acc.aborted THEN "Abort" ELSE "OK", store |-> s,
        out |-> [yielded |-> acc.yielded], batches |-> 0]

\* the visitor of pending_rowset_iterate; yields <<version, value>>
RECURSIVE pending_rowset_iterate_visit(_, _, _, _)
pending_rowset_iterate_visit(s, keys, take, yielded) ==
    IF keys = <<>> THEN yielded
    ELSE LET d == decode_meta_pending_rowset_key(Head(keys))
         IN IF ~d.ok THEN yielded
            ELSE LET y1 == Append(yielded, <<d.id, s[Head(keys)]>>)
                 IN IF Len(y1) = take THEN y1
                    ELSE pending_rowset_iterate_visit(s, Tail(keys), take, y1)

pending_rowset_iterate(s, tablet_id, take) ==
    LET prefix == TABLET_META_PENDING_ROWSET_PREFIX \o be64(tablet_id)
    IN [status |-> "OK", store |-> s,
        out |-> [yielded |-> pending_rowset_iterate_visit(s, iterate(s, prefix), take, <<>>)],
        batches |-> 0]

\* rowset_delete whose range ends after the first version of the next segment
rowset_delete_next_segment(s, tablet_id, rowset_id, segments, io_ok) ==
    LET del == <<BatchDelete(encode_meta_rowset_key(tablet_id, rowset_id))>>
        lower == encode_del_vector_key(tablet_id, ToU32(rowset_id + 0), INT64_MAX)
        upper == encode_del_vector_key(tablet_id, ToU32(rowset_id + segments), 0)
        batch == IF segments > 0 THEN Append(del, BatchDeleteRange(lower, upper)) ELSE del
        w == write_batch(s, batch, io_ok)
    IN [status |-> w.status, store |-> w.store, out |-> NoOut, batches |-> 1]

rowset_delete(s, tablet_id, rowset_id, segments, io_ok) ==
    LET del == <<BatchDelete(encode_meta_rowset_key(tablet_id, rowset_id))>>
        lower == encode_del_vector_key(tablet_id, ToU32(rowset_id + 0), INT64_MAX)
        upper == encode_del_vector_key(tablet_id, ToU32(rowset_id + segments), INT64_MAX)
        batch == IF segments > 0 THEN Append(del, BatchDeleteRange(lower, upper)) ELSE del
        w == write_batch(s, batch, io_ok)
    IN [status |-> w.status, store |-> w.store, out |-> NoOut, batches |-> 1]

apply_rowset_commit(s, tablet_id, logid, version, delvecs, io_ok) ==
    LET logput == <<BatchPut(encode_meta_log_key(tablet_id, logid), ApplyLogSerialize(version))>>
        dvputs == [i \in 1..Len(delvecs) |->
                      BatchPut(encode_del_vector_key(tablet_id, delvecs[i][1], version.major),
                               DelVectorSave(delvecs[i][2]))]
        w == write_batch(s, logput \o dvputs, io_ok)
    IN [status |-> w.status, store |-> w.store, out |-> NoOut, batches |-> 1]

(***************************************************************************)
(* Tablet headers, removal and the JSON import                             *)
(***************************************************************************)
\* clear_rowset with the upper bound taken in the next tablet
clear_rowset_into_next_tablet(tablet_id) ==
    BatchDeleteRange(encode_meta_rowset_key(tablet_id, 0),
                     encode_meta_rowset_key(tablet_id + 1, UINT32_MAX))

clear_rowset(tablet_id) ==
    BatchDeleteRange(encode_meta_rowset_key(tablet_id, 0),
                     encode_meta_rowset_key(tablet_id, UINT32_MAX))

clear_log(tablet_id) ==
    BatchDeleteRange(encode_meta_log_key(tablet_id, 0),
                     encode_meta_log_key(tablet_id, UINT64_MAX))

clear_del_vector(tablet_id) ==
    BatchDeleteRange(encode_del_vector_key(tablet_id, 0, INT64_MAX),
                     encode_del_vector_key(tablet_id, UINT32_MAX, INT64_MAX))

clear_pending_rowset(tablet_id) ==
    BatchDeleteRange(encode_meta_pending_rowset_key(tablet_id, 0),
                     encode_meta_pending_rowset_key(tablet_id, INT64_MAX))

\* save with the header written by a put of its own, before the batch
save_header_unbatched(s, tablet_id, schema_hash, meta_pb, io_ok) ==
    IF meta_pb.keys_type # "PRIMARY_KEYS" /\ meta_pb.has_updates
    THEN [status |-> "InvalidArgument", store |-> s, out |-> NoOut, batches |-> 0]
    ELSE LET key == encode_tablet_meta_key(tablet_id, schema_hash)
             val == TabletMetaSerialize(meta_pb)
             prune == IF meta_pb.has_updates /\ meta_pb.has_next_log_id
                      THEN <<BatchDeleteRange(encode_meta_log_key(tablet_id, 0),
                                              encode_meta_log_key(tablet_id, meta_pb.next_log_id))>>
                      ELSE <<>>
             w == write_batch(StorePut(s, key, val), prune, io_ok)
         IN [status |-> w.status, store |-> w.store, out |-> NoOut, batches |-> 1]

\* save that prunes the log up to and including next_log_id
save_prune_inclusive(s, tablet_id, schema_hash, meta_pb, io_ok) ==
    IF meta_pb.keys_type # "PRIMARY_KEYS" /\ meta_pb.has_updates
    THEN [status |-> "InvalidArgument", store |-> s, out |-> NoOut, batches |-> 0]
    ELSE LET key == encode_tablet_meta_key(tablet_id, schema_hash)
             val == TabletMetaSerialize(meta_pb)
             prune == IF meta_pb.has_updates /\ meta_pb.has_next_log_id
                      THEN <<BatchDeleteRange(encode_meta_log_key(tablet_id, 0),
                                              encode_meta_log_key(tablet_id, meta_pb.next_log_id + 1))>>
                      ELSE <<>>
             w == write_batch(s, <<BatchPut(key, val)>> \o prune, io_ok)
         IN [status |-> w.status, store |-> w.store, out |-> NoOut, batches |-> 1]

\* save without the check of the key type against the update state
save_unchecked(s, tablet_id, schema_hash, meta_pb, io_ok) ==
    LET key == encode_tablet_meta_key(tablet_id, schema_hash)
        val == TabletMetaSerialize(meta_pb)
        prune == IF meta_pb.has_updates /\ meta_pb.has_next_log_id
                 THEN <<BatchDeleteRange(encode_meta_log_key(tablet_id, 0),
                                         encode_meta_log_key(tablet_id, meta_pb.next_log_id))>>
                 ELSE <<>>
        w == write_batch(s, <<BatchPut(key, val)>> \o prune, io_ok)
    IN [status |-> w.status, store |-> w.store, out |-> NoOut, batches |-> 1]

\* save(store, tablet_id, schema_hash, const TabletMetaPB&)
save(s, tablet_id, schema_hash, meta_pb, io_ok) ==
    IF meta_pb.keys_type # "PRIMARY_KEYS" /\ meta_pb.has_updates
    THEN [status |-> "InvalidArgument", store |-> s, out |-> NoOut, batches |-> 0]
    ELSE LET key == encode_tablet_meta_key(tablet_id, schema_hash)
             val == TabletMetaSerialize(meta_pb)
             prune == IF meta_pb.has_updates /\ meta_pb.has_next_log_id
                      THEN <<BatchDeleteRange(encode_meta_log_key(tablet_id, 0),
                                              encode_meta_log_key(tablet_id, meta_pb.next_log_id))>>
                      ELSE <<>>
             w == write_batch(s, <<BatchPut(key, val)>> \o prune, io_ok)
         IN [status |-> IF ~TabletMetaParse(val).ok THEN "Abort" ELSE w.status,
             store |-> w.store, out |-> NoOut, batches |-> 1]

remove_tablet_meta(tablet_id, schema_hash) ==
    BatchDelete(encode_tablet_meta_key(tablet_id, schema_hash))

\* remove(store, tablet_id, schema_hash)
remove_schema(s, tablet_id, schema_hash, io_ok) ==
    LET w == write_batch(s, <<remove_tablet_meta(tablet_id, schema_hash)>>, io_ok)
    IN [status |-> w.status, store |-> w.store, out |-> NoOut, batches |-> 1]

\* the header visitor of remove(store, tablet_id); acc = [batch, is_primary]
RECURSIVE remove_traverse_tabletmeta(_, _, _, _)
remove_traverse_tabletmeta(s, keys, tablet_id, acc) ==
    IF keys = <<>> THEN acc
    ELSE LET d == decode_tablet_meta_key(Head(keys))
             m == TabletMetaParse(s[Head(keys)])
         IN IF ~d.ok \/ d.tablet_id # tablet_id THEN acc
            ELSE remove_traverse_tabletmeta(s, Tail(keys), tablet_id,
                     [batch |-> Append(acc.batch, BatchDelete(Head(keys))),
                      is_primary |-> IF m.ok THEN m.pb.keys_type = "PRIMARY_KEYS"
                                     ELSE acc.is_primary])

\* remove(store, tablet_id)
remove(s, tablet_id, io_ok) ==
    LET acc == remove_traverse_tabletmeta(s, iterate(s, tablet_meta_prefix(tablet_id)), tablet_id,
                                          [batch |-> <<>>, is_primary |-> FALSE])
        clears == IF acc.is_primary
                  THEN <<clear_log(tablet_id), clear_del_vector(tablet_id),
                         clear_rowset(tablet_id), clear_pending_rowset(tablet_id)>>
                  ELSE <<>>
        w == write_batch(s, acc.batch \o clears, io_ok)
    IN [status |-> w.status, store |-> w.store, out |-> NoOut, batches |-> 1]

\* A JSON document after rapidjson has parsed it:
\*   [valid, wrapped, tablet_meta, applied_rs_metas, pending_rs_metas,
\*    tablet_meta_logs, del_vectors]
\* wrapped says whether it has the "tablet_meta" member.
Base64Encode(value) == <<"base64", value>>
Base64Decode(text) == text[2]

TabletMetaLogSerialize(log) ==
    <<"TabletMetaLogPB", log.type, log.version.major, log.version.minor, log.creation_time>>

build_primary_meta(doc) ==
    LET tablet_id == doc.tablet_meta.tablet_id
        schema_hash == doc.tablet_meta.schema_hash
    IN <<BatchPut(encode_tablet_meta_key(tablet_id, schema_hash), TabletMetaSerialize(doc.tablet_meta)),
         clear_log(tablet_id), clear_del_vector(tablet_id),
         clear_rowset(tablet_id), clear_pending_rowset(tablet_id)>>
       \o [i \in 1..Len(doc.applied_rs_metas) |->
              BatchPut(encode_meta_rowset_key(tablet_id, doc.applied_rs_metas[i].rowset_seg_id),
                       RowsetMetaSerialize(doc.applied_rs_metas[i]))]
       \o [i \in 1..Len(doc.pending_rs_metas) |->
              BatchPut(encode_meta_pending_rowset_key(tablet_id, doc.pending_rs_metas[i].version),
                       RowsetMetaSerialize(doc.pending_rs_metas[i].rs_meta))]
       \o [i \in 1..Len(doc.tablet_meta_logs) |->
              BatchPut(encode_meta_log_key(tablet_id, doc.tablet_meta_logs[i].logid),
                       TabletMetaLogSerialize(doc.tablet_meta_logs[i].tablet_meta_log))]
       \o [i \in 1..Len(doc.del_vectors) |->
              BatchPut(encode_del_vector_key(tablet_id, doc.del_vectors[i].segment_id,
                                             doc.del_vectors[i].version),
                       Base64Decode(doc.del_vectors[i].base64_val))]

load_json_meta(s, doc, io_ok) ==
    IF ~doc.valid
    THEN [status |-> "InternalError", store |-> s, out |-> NoOut, batches |-> 0]
    ELSE LET batch == IF ~doc.wrapped
                      THEN <<BatchPut(encode_tablet_meta_key(doc.tablet_meta.tablet_id,
                                                             doc.tablet_meta.schema_hash),
                                      TabletMetaSerialize(doc.tablet_meta))>>
                      ELSE build_primary_meta(doc)
             w == write_batch(s, batch, io_ok)
         IN [status |-> w.status, store |-> w.store, out |-> NoOut, batches |-> 1]

\* the rowset scan of get_primary_meta stopping at its first key
traverse_rst_func_stops(s, keys, tablet_id, acc) == acc

\* The four scans of get_primary_meta.  acc = [items, st]: the elements appended to
\* the array of the document and the status st of the lambda.
RECURSIVE traverse_rst_func(_, _, _, _)
traverse_rst_func(s, keys, tablet_id, acc) ==
    IF keys = <<>> THEN acc
    ELSE LET d == decode_meta_rowset_key(Head(keys))
             m == RowsetMetaParse(s[Head(keys)])
         IN IF ~d.ok \/ d.tablet_id # tablet_id THEN acc
            ELSE IF ~m.ok THEN [acc EXCEPT !.st = "Corruption"]
            ELSE traverse_rst_func(s, Tail(keys), tablet_id,
                                   [acc EXCEPT !.items = Append(@, m.pb)])

RECURSIVE traverse_pending_rst_func(_, _, _, _)
traverse_pending_rst_func(s, keys, tablet_id, acc) ==
    IF keys = <<>> THEN acc
    ELSE LET d == decode_meta_pending_rowset_key(Head(keys))
             m == RowsetMetaParse(s[Head(keys)])
         IN IF ~d.ok \/ d.tablet_id # tablet_id THEN acc
            ELSE IF ~m.ok THEN [acc EXCEPT !.st = "Corruption"]
            ELSE traverse_pending_rst_func(s, Tail(keys), tablet_id,
                     [acc EXCEPT !.items = Append(@, [version |-> ToI64(d.id), rs_meta |-> m.pb])])

RECURSIVE traverse_log_func(_, _, _, _)
traverse_log_func(s, keys, tablet_id, acc) ==
    IF keys = <<>> THEN acc
    ELSE LET d == decode_meta_log_key(Head(keys))
             m == TabletMetaLogParse(s[Head(keys)])
         IN IF ~d.ok \/ d.tablet_id # tablet_id THEN acc
            ELSE IF ~m.ok THEN [acc EXCEPT !.st = "Corruption"]
            ELSE traverse_log_func(s, Tail(keys), tablet_id,
                     [acc EXCEPT !.items =
                          Append(@, [logid |-> d.id,
                                     tablet_meta_log |-> [type |-> m.type, version |-> m.version,
                                                          creation_time |-> m.creation_time]])])

\* the key is decoded by decode_del_vector_key, whatever its length
RECURSIVE traverse_dlv_func(_, _, _, _, _, _)
traverse_dlv_func(s, keys, tablet_id, build, beyond, acc) ==
    IF keys = <<>> THEN acc
    ELSE LET d == decode_del_vector_key_call(Head(keys), build, beyond)
         IN IF d.status = "Abort" THEN [acc EXCEPT !.st = "Abort"]
            ELSE IF d.out.tablet_id # tablet_id THEN acc
            ELSE IF Len(s[Head(keys)]) = 0 THEN [acc EXCEPT !.st = "Corruption"]
            ELSE traverse_dlv_func(s, Tail(keys), tablet_id, build, beyond,
                     [acc EXCEPT !.items =
                          Append(@, [version |-> d.out.version, segment_id |-> d.out.segment_id,
                                     base64_val |-> Base64Encode(s[Head(keys)])])])

NoItems == [items |-> <<>>, st |-> "OK"]

\* get_primary_meta: the document of the header tablet_meta_pb and of the four scans
get_primary_meta(s, tablet_id, tablet_meta_pb, build, beyond) ==
    LET rst == traverse_rst_func(s, iterate(s, TABLET_META_ROWSET_PREFIX \o be64(tablet_id)),
                                 tablet_id, NoItems)
        pending == traverse_pending_rst_func(
                       s, iterate(s, TABLET_META_PENDING_ROWSET_PREFIX \o be64(tablet_id)),
                       tablet_id, NoItems)
        log == traverse_log_func(s, iterate(s, TABLET_META_LOG_PREFIX \o be64(tablet_id)),
                                 tablet_id, NoItems)
        dlv == traverse_dlv_func(s, iterate(s, TABLET_DELVEC_PREFIX \o be64(tablet_id)),
                                 tablet_id, build, beyond, NoItems)
        st == IF rst.st # "OK" THEN rst.st
              ELSE IF pending.st # "OK" THEN pending.st
              ELSE IF log.st # "OK" THEN log.st
              ELSE dlv.st
    IN [status |-> st, store |-> s,
        out |-> IF st # "OK" THEN NoOut
                ELSE [doc |-> [valid |-> TRUE, wrapped |-> TRUE, tablet_meta |-> tablet_meta_pb,
                               applied_rs_metas |-> rst.items,
                               pending_rs_metas |-> pending.items,
                               tablet_meta_logs |-> log.items,
                               del_vectors |-> dlv.items]],
        batches |-> 0]

\* TabletMetaPB::ParseFromString: the empty string parses to the default message
TabletMetaParseFromString(pbdata) ==
    IF pbdata = <<>>
    THEN [ok |-> TRUE, pb |-> TabletMetaParse(pbdata).pb]
    ELSE TabletMetaParse(pbdata)

\* get_json_meta(store, tablet_id): the first header of the tablet and, for a
\* primary-key header, get_primary_meta
get_json_meta(s, tablet_id, build, beyond) ==
    LET keys == iterate(s, tablet_meta_prefix(tablet_id))
        d == IF keys = <<>> THEN DecodeFail ELSE decode_tablet_meta_key(Head(keys))
        st == IF keys = <<>> THEN "OK"
              ELSE IF ~d.ok THEN "Corruption"
              ELSE IF d.tablet_id = tablet_id THEN "OK"
              ELSE "NotFound"
        pbdata == IF keys # <<>> /\ st = "OK" THEN s[Head(keys)] ELSE <<>>
        m == TabletMetaParseFromString(pbdata)
    IN IF st # "OK" THEN [status |-> st, store |-> s, out |-> NoOut, batches |-> 0]
       ELSE IF m.pb.keys_type # "PRIMARY_KEYS"
       THEN IF ~m.ok THEN [status |-> "Corruption", store |-> s, out |-> NoOut, batches |-> 0]
            ELSE [status |-> "OK", store |-> s,
                  out |-> [doc |-> [valid |-> TRUE, wrapped |-> FALSE, tablet_meta |-> m.pb,
                                    applied_rs_metas |-> <<>>, pending_rs_metas |-> <<>>,
                                    tablet_meta_logs |-> <<>>, del_vectors |-> <<>>]],
                  batches |-> 0]
       ELSE get_primary_meta(s, tablet_id, m.pb, build, beyond)

\* get_tablet_meta: KVStore::get of the header key, then TabletMeta::deserialize
get_tablet_meta(s, tablet_id, schema_hash) ==
    LET key == encode_tablet_meta_key(tablet_id, schema_hash)
        m == TabletMetaParse(IF key \in DOMAIN s THEN s[key] ELSE <<>>)
    IN IF key \notin DOMAIN s
       THEN [status |-> "NotFound", store |-> s, out |-> NoOut, batches |-> 0]
       ELSE IF ~m.ok
       THEN [status |-> "Corruption", store |-> s, out |-> NoOut, batches |-> 0]
       ELSE [status |-> "OK", store |-> s, out |-> [tablet_meta |-> m.pb], batches |-> 0]

\* get_json_meta(store, tablet_id, schema_hash)
get_json_meta_schema(s, tablet_id, schema_hash, build, beyond) ==
    LET r == get_tablet_meta(s, tablet_id, schema_hash)
    IN IF r.status # "OK" THEN r
       ELSE IF r.out.tablet_meta.keys_type # "PRIMARY_KEYS"
       THEN [status |-> "OK", store |-> s,
             out |-> [doc |-> [valid |-> TRUE, wrapped |-> FALSE, tablet_meta |-> r.out.tablet_meta,
                               applied_rs_metas |-> <<>>, pending_rs_metas |-> <<>>,
                               tablet_meta_logs |-> <<>>, del_vectors |-> <<>>]],
             batches |-> 0]
       ELSE get_primary_meta(s, tablet_id, r.out.tablet_meta, build, beyond)

(***************************************************************************)
(* Scans: traverse_headers, traverse_meta_logs, get_stats                  *)
(***************************************************************************)
\* the lambda of traverse_headers; yields <<tablet_id, schema_hash, value>>
RECURSIVE traverse_header_func(_, _, _, _)
traverse_header_func(s, keys, take, yielded) ==
    IF keys = <<>> THEN yielded
    ELSE LET d == decode_tablet_meta_key(Head(keys))
         IN IF ~d.ok THEN traverse_header_func(s, Tail(keys), take, yielded)
            ELSE LET y1 == Append(yielded, <<d.tablet_id, d.id, s[Head(keys)]>>)
                 IN IF Len(y1) = take THEN y1
                    ELSE traverse_header_func(s, Tail(keys), take, y1)

traverse_headers(s, take) ==
    [status |-> "OK", store |-> s,
     out |-> [yielded |-> traverse_header_func(s, iterate(s, HEADER_PREFIX), take, <<>>)],
     batches |-> 0]

\* the lambda of traverse_meta_logs passing over an entry it cannot read
RECURSIVE traverse_meta_logs_visit_skips(_, _, _, _)
traverse_meta_logs_visit_skips(s, keys, take, acc) ==
    IF keys = <<>> THEN acc
    ELSE LET d == decode_meta_log_key(Head(keys))
             log == TabletMetaLogParse(s[Head(keys)])
         IN IF ~d.ok \/ ~log.ok THEN traverse_meta_logs_visit_skips(s, Tail(keys), take, acc)
            ELSE LET a1 == [acc EXCEPT !.yielded = Append(acc.yielded, <<d.id, log>>)]
                 IN IF Len(a1.yielded) = take THEN a1
                    ELSE traverse_meta_logs_visit_skips(s, Tail(keys), take, a1)

\* the lambda of traverse_meta_logs; acc = [yielded, ret], yields <<logid, log>>
RECURSIVE traverse_meta_logs_visit(_, _, _, _)
traverse_meta_logs_visit(s, keys, take, acc) ==
    IF keys = <<>> THEN acc
    ELSE LET d == decode_meta_log_key(Head(keys))
             log == TabletMetaLogParse(s[Head(keys)])
         IN IF ~d.ok \/ ~log.ok THEN [acc EXCEPT !.ret = "Corruption"]
            ELSE LET a1 == [acc EXCEPT !.yielded = Append(acc.yielded, <<d.id, log>>)]
                 IN IF Len(a1.yielded) = take THEN a1
                    ELSE traverse_meta_logs_visit(s, Tail(keys), take, a1)

traverse_meta_logs(s, tablet_id, take) ==
    LET lower_bound == encode_meta_log_key(tablet_id, 0)
        upper_bound == encode_meta_log_key(tablet_id, UINT64_MAX)
        acc == traverse_meta_logs_visit(s, iterate_range(s, lower_bound, upper_bound), take,
                                        [yielded |-> <<>>, ret |-> "OK"])
    IN [status |-> acc.ret, store |-> s, out |-> [yielded |-> acc.yielded], batches |-> 0]

\* value.size(): the number of fields stands for the number of bytes
ValueSize(value) == Len(value)

\* the prefix of the rowset records of the former format
RST_PREFIX == <<114, 115, 116, 95>>

NoTabletStats ==
    [meta_bytes |-> 0, log_size |-> 0, log_bytes |-> 0, delvec_size |-> 0, delvec_bytes |-> 0,
     rowset_size |-> 0, rowset_bytes |-> 0, pending_rowset_size |-> 0, pending_rowset_bytes |-> 0]

\* a MetaStoreStats as constructed
NoStats ==
    [tablet_size |-> 0, tablet_bytes |-> 0, update_tablet_size |-> 0, update_tablet_bytes |-> 0,
     rst_size |-> 0, rst_bytes |-> 0, log_size |-> 0, log_bytes |-> 0,
     delvec_size |-> 0, delvec_bytes |-> 0, rowset_size |-> 0, rowset_bytes |-> 0,
     pending_rowset_size |-> 0, pending_rowset_bytes |-> 0,
     total_size |-> 0, total_bytes |-> 0, error_size |-> 0, aborted |-> FALSE,
     tablets |-> EmptyStore]

\* size++ and bytes += n
Count(stats, size, bytes, n) == [stats EXCEPT ![size] = @ + 1, ![bytes] = @ + n]

Error(stats) == [stats EXCEPT !.error_size = @ + 1]

\* total_size += size and total_bytes += bytes, after the scan of a family
Total(stats, size, bytes) ==
    [stats EXCEPT !.total_size = @ + stats[size], !.total_bytes = @ + stats[bytes]]

\* the detail branch of a record of tablet tid: the tablet's own counters, or, when
\* the tablet has no header, a warning and, where tallied says so, error_size++
Detail(stats, detail, tid, size, bytes, n, tallied) ==
    IF ~detail THEN stats
    ELSE IF tid \notin DOMAIN stats.tablets THEN (IF tallied THEN Error(stats) ELSE stats)
    ELSE [stats EXCEPT !.tablets[tid] = Count(@, size, bytes, n)]

RECURSIVE get_stats_tabletmeta(_, _, _, _)
get_stats_tabletmeta(s, keys, detail, stats) ==
    IF keys = <<>> THEN stats
    ELSE LET d == decode_tablet_meta_key(Head(keys))
             m == TabletMetaParse(s[Head(keys)])
             n == ValueSize(s[Head(keys)])
             c == Count(stats, "tablet_size", "tablet_bytes", n)
             u == IF m.pb.keys_type = "PRIMARY_KEYS"
                  THEN Count(c, "update_tablet_size", "update_tablet_bytes", n) ELSE c
             t == IF ~detail THEN u
                  ELSE [(IF d.tablet_id \in DOMAIN u.tablets THEN Error(u) ELSE u)
                           EXCEPT !.tablets = StorePut(@, d.tablet_id,
                                                       [NoTabletStats EXCEPT !.meta_bytes = n])]
         IN get_stats_tabletmeta(s, Tail(keys), detail,
                                 IF ~d.ok \/ ~m.ok THEN Error(stats) ELSE t)

RECURSIVE get_stats_rst(_, _, _, _)
get_stats_rst(s, keys, detail, stats) ==
    IF keys = <<>> THEN stats
    ELSE get_stats_rst(s, Tail(keys), detail,
                       Count(stats, "rst_size", "rst_bytes", ValueSize(s[Head(keys)])))

RECURSIVE get_stats_log(_, _, _, _)
get_stats_log(s, keys, detail, stats) ==
    IF keys = <<>> THEN stats
    ELSE LET d == decode_meta_log_key(Head(keys))
             n == ValueSize(s[Head(keys)])
         IN get_stats_log(s, Tail(keys), detail,
                IF ~d.ok THEN Error(stats)
                ELSE Detail(Count(stats, "log_size", "log_bytes", n), detail, d.tablet_id,
                            "log_size", "log_bytes", n, FALSE))

\* the key is decoded without a check of its length: see decode_del_vector_key_call
RECURSIVE get_stats_delvec(_, _, _, _, _, _)
get_stats_delvec(s, keys, detail, build, beyond, stats) ==
    IF keys = <<>> THEN stats
    ELSE LET d == decode_del_vector_key_call(Head(keys), build, beyond)
             n == ValueSize(s[Head(keys)])
         IN IF d.status = "Abort" THEN [stats EXCEPT !.aborted = TRUE]
            ELSE get_stats_delvec(s, Tail(keys), detail, build, beyond,
                     Detail(Count(stats, "delvec_size", "delvec_bytes", n), detail,
                            d.out.tablet_id, "delvec_size", "delvec_bytes", n, TRUE))

RECURSIVE get_stats_rowset(_, _, _, _)
get_stats_rowset(s, keys, detail, stats) ==
    IF keys = <<>> THEN stats
    ELSE LET d == decode_meta_rowset_key(Head(keys))
             n == ValueSize(s[Head(keys)])
         IN get_stats_rowset(s, Tail(keys), detail,
                IF ~d.ok THEN Error(stats)
                ELSE Detail(Count(stats, "rowset_size", "rowset_bytes", n), detail, d.tablet_id,
                            "rowset_size", "rowset_bytes", n, TRUE))

RECURSIVE get_stats_pending_rowset(_, _, _, _)
get_stats_pending_rowset(s, keys, detail, stats) ==
    IF keys = <<>> THEN stats
    ELSE LET d == decode_meta_pending_rowset_key(Head(keys))
             n == ValueSize(s[Head(keys)])
         IN get_stats_pending_rowset(s, Tail(keys), detail,
                IF ~d.ok THEN stats
                ELSE Detail(Count(stats, "pending_rowset_size", "pending_rowset_bytes", n),
                            detail, d.tablet_id,
                            "pending_rowset_size", "pending_rowset_bytes", n, TRUE))

\* get_stats on a MetaStoreStats as constructed; status "Abort" stands for the
\* DCHECK_EQ of decode_del_vector_key that ends the process
get_stats(s, detail, build, beyond) ==
    LET t1 == Total(get_stats_tabletmeta(s, iterate(s, HEADER_PREFIX), detail, NoStats),
                    "tablet_size", "tablet_bytes")
        t2 == Total(get_stats_rst(s, iterate(s, RST_PREFIX), detail, t1), "rst_size", "rst_bytes")
        t3 == Total(get_stats_log(s, iterate(s, TABLET_META_LOG_PREFIX), detail, t2),
                    "log_size", "log_bytes")
        d4 == get_stats_delvec(s, iterate(s, TABLET_DELVEC_PREFIX), detail, build, beyond, t3)
        t4 == Total(d4, "delvec_size", "delvec_bytes")
        t5 == Total(get_stats_rowset(s, iterate(s, TABLET_META_ROWSET_PREFIX), detail, t4),
                    "rowset_size", "rowset_bytes")
        t6 == Total(get_stats_pending_rowset(s, iterate(s, TABLET_META_PENDING_ROWSET_PREFIX),
                                             detail, t5),
                    "pending_rowset_size", "pending_rowset_bytes")
    IN IF d4.aborted
       THEN [status |-> "Abort", store |-> s, out |-> [stats |-> d4], batches |-> 0]
       ELSE [status |-> "OK", store |-> s, out |-> [stats |-> t6], batches |-> 0]

(***************************************************************************)
(* State machine: one action per operation.  An action runs the whole      *)
(* operation and records it in last.                                       *)
(***************************************************************************)
Idle == <<pc, wb, call, seen>>

Returns(op, args, r) ==
    /\ store' = r.store
    /\ pre' = store
    /\ last' = [op |-> op, args |-> args, status |-> r.status, out |-> r.out,
                batches |-> r.batches]
    /\ UNCHANGED Idle

Init ==
    /\ store = EmptyStore
    /\ pre = EmptyStore
    /\ last = [op |-> "init", args |-> NoOut, status |-> "OK", out |-> NoOut, batches |-> 0]
    /\ pc = "idle"
    /\ wb = <<>>
    /\ call = NoOut
    /\ seen = NoOut

SetDelVector(tablet_id, segment_id, delvec, io_ok) ==
    Returns("set_del_vector",
            [tablet_id |-> tablet_id, segment_id |-> segment_id, delvec |-> delvec,
             io_ok |-> io_ok],
            set_del_vector(store, tablet_id, segment_id, delvec, io_ok))

GetDelVector(tablet_id, segment_id, version, latest_in) ==
    Returns("get_del_vector",
            [tablet_id |-> tablet_id, segment_id |-> segment_id, version |-> version,
             latest_in |-> latest_in],
            get_del_vector(store, tablet_id, segment_id, version, latest_in))

ListDelVector(tablet_id, max_version) ==
    Returns("list_del_vector", [tablet_id |-> tablet_id, max_version |-> max_version],
            list_del_vector(store, tablet_id, max_version))

DeleteDelVectorRange(tablet_id, segment_id, start_version, end_version, io_ok, overflow) ==
    Returns("delete_del_vector_range",
            [tablet_id |-> tablet_id, segment_id |-> segment_id,
             start_version |-> start_version, end_version |-> end_version,
             io_ok |-> io_ok, overflow |-> overflow],
            delete_del_vector_range(store, tablet_id, segment_id, start_version, end_version,
                                    io_ok, overflow))

RowsetCommit(tablet_id, logid, edit, rowset, rowset_meta_key, io_ok) ==
    Returns("rowset_commit",
            [tablet_id |-> tablet_id, logid |-> logid, edit |-> edit, rowset |-> rowset,
             rowset_meta_key |-> rowset_meta_key, io_ok |-> io_ok],
            rowset_commit(store, tablet_id, logid, edit, rowset, rowset_meta_key, io_ok))

PendingRowsetCommit(tablet_id, version, rowset, rowset_meta_key, io_ok) ==
    Returns("pending_rowset_commit",
            [tablet_id |-> tablet_id, version |-> version, rowset |-> rowset,
             rowset_meta_key |-> rowset_meta_key, io_ok |-> io_ok],
            pending_rowset_commit(store, tablet_id, version, rowset, rowset_meta_key, io_ok))

DeletePendingRowset(tablet_id, version, io_ok) ==
    Returns("delete_pending_rowset",
            [tablet_id |-> tablet_id, version |-> version, io_ok |-> io_ok],
            delete_pending_rowset(store, tablet_id, version, io_ok))

\* a caller stages delete_pending_rowset(store, &batch, ..) into a batch of its own
\* and writes the batch
DeletePendingRowsetStaged(tablet_id, version, io_ok) ==
    Returns("delete_pending_rowset_staged",
            [tablet_id |-> tablet_id, version |-> version, io_ok |-> io_ok],
            LET c == delete_pending_rowset_staged([store |-> store, wb |-> <<>>], tablet_id, version)
                w == write_batch(c.store, c.wb, io_ok)
            IN [status |-> w.status, store |-> w.store, out |-> NoOut, batches |-> 1])

RowsetIterate(tablet_id, take) ==
    Returns("rowset_iterate", [tablet_id |-> tablet_id, take |-> take],
            rowset_iterate(store, tablet_id, take))

PendingRowsetIterate(tablet_id, take) ==
    Returns("pending_rowset_iterate", [tablet_id |-> tablet_id, take |-> take],
            pending_rowset_iterate(store, tablet_id, take))

RowsetDelete(tablet_id, rowset_id, segments, io_ok) ==
    Returns("rowset_delete",
            [tablet_id |-> tablet_id, rowset_id |-> rowset_id, segments |-> segments,
             io_ok |-> io_ok],
            rowset_delete(store, tablet_id, rowset_id, segments, io_ok))

ApplyRowsetCommit(tablet_id, logid, version, delvecs, io_ok) ==
    Returns("apply_rowset_commit",
            [tablet_id |-> tablet_id, logid |-> logid, version |-> version,
             delvecs |-> delvecs, io_ok |-> io_ok],
            apply_rowset_commit(store, tablet_id, logid, version, delvecs, io_ok))

Save(tablet_id, schema_hash, meta_pb, io_ok) ==
    Returns("save",
            [tablet_id |-> tablet_id, schema_hash |-> schema_hash, meta_pb |-> meta_pb,
             io_ok |-> io_ok],
            save(store, tablet_id, schema_hash, meta_pb, io_ok))

RemoveSchema(tablet_id, schema_hash, io_ok) ==
    Returns("remove_schema",
            [tablet_id |-> tablet_id, schema_hash |-> schema_hash, io_ok |-> io_ok],
            remove_schema(store, tablet_id, schema_hash, io_ok))

Remove(tablet_id, io_ok) ==
    Returns("remove", [tablet_id |-> tablet_id, io_ok |-> io_ok],
            remove(store, tablet_id, io_ok))

LoadJsonMeta(doc, io_ok) ==
    Returns("load_json_meta", [doc |-> doc, io_ok |-> io_ok],
            load_json_meta(store, doc, io_ok))

GetJsonMeta(tablet_id, build, beyond) ==
    Returns("get_json_meta", [tablet_id |-> tablet_id, build |-> build, beyond |-> beyond],
            get_json_meta(store, tablet_id, build, beyond))

\* load_json_meta of the document the last get_json_meta wrote
LoadExported(io_ok) ==
    /\ last.op = "get_json_meta"
    /\ last.status = "OK"
    /\ LoadJsonMeta(last.out.doc, io_ok)

\* a call of one of the four decoders that return bool
Decode(op, key, d) ==
    Returns(op, [key |-> key],
            [status |-> IF d.ok THEN "OK" ELSE "DecodeFailure", store |-> store,
             out |-> [tablet_id |-> d.tablet_id, id |-> d.id], batches |-> 0])

DecodeTabletMetaKey(key) == Decode("decode_tablet_meta_key", key, decode_tablet_meta_key(key))

DecodeMetaLogKey(key) == Decode("decode_meta_log_key", key, decode_meta_log_key(key))

DecodeMetaRowsetKey(key) == Decode("decode_meta_rowset_key", key, decode_meta_rowset_key(key))

DecodeMetaPendingRowsetKey(key) ==
    Decode("decode_meta_pending_rowset_key", key, decode_meta_pending_rowset_key(key))

DecodeDelVectorKey(enc_key, build, beyond) ==
    Returns("decode_del_vector_key", [key |-> enc_key, build |-> build, beyond |-> beyond],
            [status |-> decode_del_vector_key_call(enc_key, build, beyond).status,
             store |-> store,
             out |-> decode_del_vector_key_call(enc_key, build, beyond).out,
             batches |-> 0])

\* two delete-vector keys of one tablet encoded and compared as the store orders them
CompareDelVectorKeys(tablet_id, segment1, version1, segment2, version2) ==
    Returns("compare_del_vector_keys",
            [tablet_id |-> tablet_id, segment1 |-> segment1, version1 |-> version1,
             segment2 |-> segment2, version2 |-> version2],
            [status |-> "OK", store |-> store,
             out |-> [less |-> KeyLess(encode_del_vector_key(tablet_id, segment1, version1),
                                       encode_del_vector_key(tablet_id, segment2, version2)),
                      greater |-> KeyLess(encode_del_vector_key(tablet_id, segment2, version2),
                                          encode_del_vector_key(tablet_id, segment1, version1))],
             batches |-> 0])

(***************************************************************************)
(* Spec: every mutating operation, on a primary-key tablet 1 whose records *)
(* take the least and the greatest ids, and a neighbour tablet 2           *)
(***************************************************************************)
MaxRecords == 3

PrimaryMeta(tablet_id, next_log_id) ==
    [tablet_id |-> tablet_id, schema_hash |-> 1, keys_type |-> "PRIMARY_KEYS",
     has_updates |-> TRUE, has_next_log_id |-> TRUE, next_log_id |-> next_log_id]

DupMeta(tablet_id, has_updates) ==
    [tablet_id |-> tablet_id, schema_hash |-> 1, keys_type |-> "DUP_KEYS",
     has_updates |-> has_updates, has_next_log_id |-> FALSE, next_log_id |-> 0]

Rowset(rowset_seg_id, data) == [rowset_seg_id |-> rowset_seg_id, data |-> data]

Edit(major) == [version |-> [major |-> major, minor |-> 0], creation_time |-> 7]

DelVec(version, bits) == [version |-> version, bits |-> bits]

\* headers given to save
Metas == {PrimaryMeta(1, 1), DupMeta(1, FALSE), DupMeta(1, TRUE), PrimaryMeta(2, 0)}

\* <<edit version major, rowset_seg_id>> of the rowsets committed to tablet 1
Commits == {<<1, 0>>, <<INT64_MAX, UINT32_MAX>>}

Docs ==
    {[valid |-> TRUE, wrapped |-> TRUE, tablet_meta |-> PrimaryMeta(1, 0),
      applied_rs_metas |-> <<Rowset(0, 5)>>,
      pending_rs_metas |-> <<[version |-> 1, rs_meta |-> Rowset(1, 6)]>>,
      tablet_meta_logs |-> <<>>,
      del_vectors |-> <<[version |-> 1, segment_id |-> 0,
                         base64_val |-> Base64Encode(DelVectorSave(DelVec(1, 3)))]>>],
     [valid |-> TRUE, wrapped |-> FALSE, tablet_meta |-> DupMeta(1, FALSE),
      applied_rs_metas |-> <<>>, pending_rs_metas |-> <<>>,
      tablet_meta_logs |-> <<>>, del_vectors |-> <<>>]}

Room == Cardinality(DOMAIN store) < MaxRecords

Next ==
    \/ \E m \in Metas, io_ok \in BOOLEAN :
          Room /\ Save(m.tablet_id, m.schema_hash, m, io_ok)
    \/ \E c \in Commits, io_ok \in BOOLEAN :
          Room /\ RowsetCommit(1, 0, Edit(c[1]), Rowset(c[2], 5), <<>>, io_ok)
    \/ \E c \in Commits, io_ok \in BOOLEAN :
          Room /\ PendingRowsetCommit(1, c[1], Rowset(c[2], 5), <<>>, io_ok)
    \/ \E c \in Commits, io_ok \in BOOLEAN :
          Room /\ ApplyRowsetCommit(1, 1, [major |-> 1, minor |-> 0],
                                    <<<<c[2], DelVec(1, 3)>>>>, io_ok)
    \/ \E g \in {0, 1}, io_ok \in BOOLEAN :
          RowsetDelete(1, 0, g, io_ok)
    \/ \E io_ok \in BOOLEAN, overflow \in SignedOverflow :
          DeleteDelVectorRange(1, 0, 0, 2, io_ok, overflow)
    \/ \E t \in {1, 2}, io_ok \in BOOLEAN :
          Remove(t, io_ok)
    \/ \E io_ok \in BOOLEAN :
          RemoveSchema(1, 1, io_ok)
    \/ \E d \in Docs, io_ok \in BOOLEAN :
          Room /\ LoadJsonMeta(d, io_ok)

Spec == Init /\ [][Next]_vars

(***************************************************************************)
(* SpecCommit: pending commits and commits on tablet 1.  The edit of major *)
(* version V is logged under log id V - 1.  The obsolete key of a commit   *)
(* is empty, the key of another pending rowset, or the key of a record the *)
(* call itself writes.                                                     *)
(***************************************************************************)
CommitVersions == {1, 2}
CommitSegments == {1, 2}

ObsoleteKeys(tablet_id, logid, major, rowset_seg_id) ==
    {<<>>,
     encode_meta_pending_rowset_key(tablet_id, 3 - major),
     encode_meta_rowset_key(tablet_id, rowset_seg_id),
     encode_meta_log_key(tablet_id, logid)}

NextCommit ==
    \/ \E v \in CommitVersions, g \in CommitSegments, io_ok \in BOOLEAN :
          \E k \in ObsoleteKeys(1, v - 1, v, g) :
              RowsetCommit(1, v - 1, Edit(v), Rowset(g, 5), k, io_ok)
    \/ \E v \in CommitVersions, io_ok \in BOOLEAN :
          \E k \in {<<>>, encode_meta_pending_rowset_key(1, 3 - v)} :
              PendingRowsetCommit(1, v, Rowset(v, 6), k, io_ok)
    \/ PendingRowsetCommit(2, 1, Rowset(1, 6), <<>>, TRUE)
    \/ \E v \in CommitVersions, io_ok \in BOOLEAN :
          DeletePendingRowset(1, v, io_ok)
    \/ \E t \in {1, 2} : RowsetIterate(t, 0)
    \/ \E t \in {1, 2} : PendingRowsetIterate(t, 0)

SpecCommit == Init /\ [][NextCommit]_vars

(***************************************************************************)
(* SpecCommitSteps: one rowset_commit call on tablet 1 runs statement by   *)
(* statement while a reader takes snapshots of the store and another       *)
(* thread writes to tablet 2.  Calls on tablet 1 are serialized by their   *)
(* caller, so the pending commits on tablet 1 run between the calls.       *)
(***************************************************************************)
CommitBegin(tablet_id, logid, edit, rowset, rowset_meta_key) ==
    /\ pc = "idle"
    /\ pc' = "begin"
    /\ wb' = <<>>
    /\ call' = [tablet_id |-> tablet_id, logid |-> logid, edit |-> edit, rowset |-> rowset,
                rowset_meta_key |-> rowset_meta_key, before |-> store, status |-> "running"]
    /\ seen' = NoOut
    /\ UNCHANGED <<store, pre, last>>

CommitStatement(from, to, c) ==
    /\ pc = from
    /\ pc' = to
    /\ store' = c.store
    /\ wb' = c.wb
    /\ UNCHANGED <<pre, last, call, seen>>

InFlight == [store |-> store, wb |-> wb]

CommitPutLog ==
    CommitStatement("begin", "log", rowset_commit_put_log(InFlight, call.tablet_id, call.logid, call.edit))

CommitPutRowset ==
    CommitStatement("log", "rowset", rowset_commit_put_rowset(InFlight, call.tablet_id, call.rowset))

CommitDeleteObsolete ==
    CommitStatement("rowset", "obsolete", rowset_commit_delete_obsolete(InFlight, call.rowset_meta_key))

CommitDeletePending ==
    CommitStatement("obsolete", "pending", rowset_commit_delete_pending(InFlight, call.tablet_id, call.edit))

CommitWrite(io_ok) ==
    /\ pc = "pending"
    /\ pc' = "written"
    /\ store' = write_batch(store, wb, io_ok).store
    /\ call' = [call EXCEPT !.status = write_batch(store, wb, io_ok).status]
    /\ UNCHANGED <<pre, last, wb, seen>>

CommitReturn ==
    /\ pc = "written"
    /\ pc' = "idle"
    /\ wb' = <<>>
    /\ call' = NoOut
    /\ seen' = NoOut
    /\ UNCHANGED <<store, pre, last>>

\* an operation of another call: it changes the store and nothing of the call in flight
Meanwhile(r) ==
    /\ store' = r.store
    /\ UNCHANGED <<pre, last, pc, wb, call, seen>>

\* a reader in another thread reads the store while the call is in flight
Read ==
    /\ pc # "idle"
    /\ seen' = [store |-> store, pc |-> pc]
    /\ UNCHANGED <<store, pre, last, pc, wb, call>>

NextCommitSteps ==
    \/ \E v \in CommitVersions :
          \E k \in ObsoleteKeys(1, v - 1, v, 1) :
              CommitBegin(1, v - 1, Edit(v), Rowset(1, 5), k)
    \/ CommitPutLog
    \/ CommitPutRowset
    \/ CommitDeleteObsolete
    \/ CommitDeletePending
    \/ \E io_ok \in BOOLEAN : CommitWrite(io_ok)
    \/ CommitReturn
    \/ Read
    \/ \E v \in CommitVersions :
          pc = "idle" /\ Meanwhile(pending_rowset_commit(store, 1, v, Rowset(v, 6), <<>>, TRUE))
    \/ Meanwhile(pending_rowset_commit(store, 2, 1, Rowset(1, 6), <<>>, TRUE))
    \/ Meanwhile(delete_pending_rowset(store, 2, 1, TRUE))

SpecCommitSteps == Init /\ [][NextCommitSteps]_vars

(***************************************************************************)
(* Properties of rowset_commit (C1, C3 under SpecCommit; C2 under          *)
(* SpecCommitSteps)                                                        *)
(***************************************************************************)
\* the keys a rowset_commit call with arguments a writes or deletes
CommitLogKey(a) == encode_meta_log_key(a.tablet_id, a.logid)
CommitRowsetKey(a) == encode_meta_rowset_key(a.tablet_id, a.rowset.rowset_seg_id)
CommitPendingKey(a) == encode_meta_pending_rowset_key(a.tablet_id, a.edit.version.major)

\* the four postconditions of a rowset_commit call with arguments a, in store s
CommitPostconditions(s, a) ==
    /\ CommitLogKey(a) \in DOMAIN s
    /\ TabletMetaLogParse(s[CommitLogKey(a)]) =
           [ok |-> TRUE, type |-> "OP_ROWSET_COMMIT", version |-> a.edit.version,
            creation_time |-> a.edit.creation_time]
    /\ CommitRowsetKey(a) \in DOMAIN s
    /\ RowsetMetaParse(s[CommitRowsetKey(a)]) = [ok |-> TRUE, pb |-> a.rowset]
    /\ a.rowset_meta_key # <<>> => a.rowset_meta_key \notin DOMAIN s
    /\ CommitPendingKey(a) \notin DOMAIN s

\* C1 as stated: after a successful rowset_commit, for every value of the obsolete
\* key, the log entry carries the edit, the rowset record holds the rowset, the
\* obsolete key is absent when non-empty and the pending rowset of the edit's major
\* version is absent
C1_CommitPostconditionsForEveryObsoleteKey ==
    (last.op = "rowset_commit" /\ last.status = "OK") =>
        CommitPostconditions(store, last.args)

\* C1 amended: the same four postconditions hold after a successful rowset_commit
\* for every obsolete key other than the key of the log entry and the key of the
\* rowset record the call writes
C1_CommitPostconditionsForForeignObsoleteKey ==
    (/\ last.op = "rowset_commit"
     /\ last.status = "OK"
     /\ last.args.rowset_meta_key \notin {CommitLogKey(last.args), CommitRowsetKey(last.args)}) =>
        CommitPostconditions(store, last.args)

\* a successful commit that found both the pending rowset of its version and the
\* record at its obsolete key in the store
C1_Witness ==
    /\ last.op = "rowset_commit"
    /\ last.status = "OK"
    /\ last.args.rowset_meta_key # <<>>
    /\ last.args.rowset_meta_key \notin {CommitLogKey(last.args), CommitRowsetKey(last.args)}
    /\ last.args.rowset_meta_key \in DOMAIN pre
    /\ CommitPendingKey(last.args) \in DOMAIN pre
    /\ CommitLogKey(last.args) \notin DOMAIN pre
    /\ CommitPostconditions(store, last.args)

\* the versions a pending_rowset_iterate over s yields for tablet_id
PendingVersionsYielded(s, tablet_id) ==
    LET y == pending_rowset_iterate(s, tablet_id, 0).out.yielded
    IN {y[i][1] : i \in 1..Len(y)}

\* how many times a rowset_iterate over s yields rowset for tablet_id
TimesYielded(s, tablet_id, rowset) ==
    LET y == rowset_iterate(s, tablet_id, 0).out.yielded
    IN Cardinality({i \in 1..Len(y) : y[i] = rowset})

CommitThenIterate(s, a) ==
    /\ a.edit.version.major \notin PendingVersionsYielded(s, a.tablet_id)
    /\ rowset_iterate(s, a.tablet_id, 0).status = "OK"
    /\ TimesYielded(s, a.tablet_id, a.rowset) = 1

\* C3 as stated: after a successful rowset_commit of major version V, a following
\* pending_rowset_iterate on the tablet does not yield V and a following
\* rowset_iterate yields the committed rowset exactly once
C3_CommittedRowsetIteratedOnce ==
    (last.op = "rowset_commit" /\ last.status = "OK") =>
        CommitThenIterate(store, last.args)

\* C3 amended: the same holds after a successful rowset_commit whose obsolete key is
\* not the key of the rowset record it writes
C3_CommittedRowsetIteratedOnceUnlessObsolete ==
    (/\ last.op = "rowset_commit"
     /\ last.status = "OK"
     /\ last.args.rowset_meta_key # CommitRowsetKey(last.args)) =>
        CommitThenIterate(store, last.args)

\* a successful commit of a version that was pending, into a tablet that keeps
\* another rowset and another pending version
C3_Witness ==
    /\ last.op = "rowset_commit"
    /\ last.status = "OK"
    /\ last.args.rowset_meta_key # CommitRowsetKey(last.args)
    /\ last.args.edit.version.major \in PendingVersionsYielded(pre, last.args.tablet_id)
    /\ PendingVersionsYielded(store, last.args.tablet_id) # {}
    /\ Len(rowset_iterate(store, last.args.tablet_id, 0).out.yielded) = 2
    /\ TimesYielded(store, last.args.tablet_id, last.args.rowset) = 1

\* the part of store s a rowset_commit call c touches
CallKeys(c) ==
    {CommitLogKey(c), CommitRowsetKey(c), CommitPendingKey(c)}
        \cup (IF c.rowset_meta_key # <<>> THEN {c.rowset_meta_key} ELSE {})

View(s, c) == [k \in CallKeys(c) \cap DOMAIN s |-> s[k]]

\* the store with all effects of call c on the store it began with
AllEffects(c) ==
    LET puts == {CommitLogKey(c), CommitRowsetKey(c)}
        dels == {CommitPendingKey(c), c.rowset_meta_key}
    IN [k \in ((DOMAIN c.before) \cup puts) \ dels |->
           IF k = CommitLogKey(c) THEN CommitLogSerialize(c.edit)
           ELSE IF k = CommitRowsetKey(c) THEN RowsetMetaSerialize(c.rowset)
           ELSE c.before[k]]

\* what a reader of snapshot s may see of call c
NoneOrAll(s, c) ==
    /\ View(s, c) \in {View(c.before, c), View(AllEffects(c), c)}
    /\ (CommitLogKey(c) \in DOMAIN s /\ CommitLogKey(c) \notin DOMAIN c.before)
           => (CommitRowsetKey(c) \in DOMAIN s /\ s[CommitRowsetKey(c)] = RowsetMetaSerialize(c.rowset))
    /\ (CommitRowsetKey(c) \in DOMAIN s /\ CommitRowsetKey(c) \notin DOMAIN c.before)
           => CommitPendingKey(c) \notin DOMAIN s

\* C2 as stated: a reader at any point of a rowset_commit call sees none or all of
\* its effects, never the new log entry without the new rowset record and never the
\* new rowset record with the pending rowset of the edit's major version
C2_ReaderSeesNoneOrAll ==
    seen # NoOut => NoneOrAll(seen.store, call)

\* C2 amended: the same holds for a rowset_commit call whose obsolete key is not
\* the key of the rowset record it writes
C2_ReaderSeesNoneOrAllUnlessObsolete ==
    (seen # NoOut /\ call.rowset_meta_key # CommitRowsetKey(call)) =>
        NoneOrAll(seen.store, call)

\* a reader that read after every statement had staged its write and before the
\* batch was written, in a call that then wrote a new log entry and removed the
\* pending rowset
C2_Witness ==
    /\ pc = "written"
    /\ call.status = "OK"
    /\ call.rowset_meta_key # CommitRowsetKey(call)
    /\ seen # NoOut
    /\ seen.pc = "pending"
    /\ CommitPendingKey(call) \in DOMAIN seen.store
    /\ CommitLogKey(call) \notin DOMAIN seen.store
    /\ CommitLogKey(call) \in DOMAIN store
    /\ CommitPendingKey(call) \notin DOMAIN store

(***************************************************************************)
(* SpecDelVec: the delete-vector operations on two tablets                 *)
(***************************************************************************)
MaxDelVecs == 3

\* (tablet, segment, version) of the delete vectors that may be written: tablet 1
\* with the first, second and last segment id, tablet 2 as a neighbour
DvRecords ==
    ({1} \X {0} \X {0, 1, 2, INT64_MAX})
        \cup ({1} \X {UINT32_MAX} \X {0, 1})
        \cup {<<1, 1, 1>>, <<2, 0, 1>>}
DvTablets == {r[1] : r \in DvRecords}
DvSegments == {<<r[1], r[2]>> : r \in DvRecords}
DvVersions == {r[3] : r \in DvRecords}
\* (start_version, end_version) of the range deletes
DvRanges ==
    {<<0, 1>>, <<0, 2>>, <<1, 2>>, <<1, INT64_MAX>>, <<0, INT64_MAX>>,
     <<1, 1>>, <<2, 1>>}
\* the values the caller's latest_version may hold before get_del_vector
LatestIns == {-1}

DelVecKeys(s) == {k \in DOMAIN s : StartsWith(k, TABLET_DELVEC_PREFIX)}

NextDelVec ==
    \/ \E r \in DvRecords, io_ok \in BOOLEAN :
          /\ Cardinality(DelVecKeys(store)) < MaxDelVecs
          /\ SetDelVector(r[1], r[2], [version |-> r[3], bits |-> 10 * r[2] + r[3]], io_ok)
    \/ \E g \in DvSegments, q \in DvVersions, l \in LatestIns :
          GetDelVector(g[1], g[2], q, l)
    \/ \E t \in DvTablets, m \in DvVersions :
          ListDelVector(t, m)
    \/ \E g \in DvSegments, r \in DvRanges, io_ok \in BOOLEAN, overflow \in SignedOverflow :
          DeleteDelVectorRange(g[1], g[2], r[1], r[2], io_ok, overflow)

SpecDelVec == Init /\ [][NextDelVec]_vars

(***************************************************************************)
(* Properties of the delete-vector operations (checked under SpecDelVec)   *)
(***************************************************************************)
Max(S) == CHOOSE m \in S : \A x \in S : x <= m

\* the versions stored in s for (tablet_id, segment_id)
StoredVersions(s, tablet_id, segment_id) ==
    {r[3] : r \in {x \in DvRecords : /\ x[1] = tablet_id
                                     /\ x[2] = segment_id
                                     /\ encode_del_vector_key(x[1], x[2], x[3]) \in DOMAIN s}}

\* the stored bytes of the delete vector at (tablet_id, segment_id, version)
StoredDelVec(s, tablet_id, segment_id, version) ==
    s[encode_del_vector_key(tablet_id, segment_id, version)]

\* C5: get_del_vector returns the record of the greatest stored version <= the query
\* version of that (tablet, segment), with that version as the actual version, and
\* returns NotFound exactly when no stored version is <= the query version
C5_GetReturnsGreatestVersionAtMostQuery ==
    last.op = "get_del_vector" =>
        LET a == last.args
            cand == {v \in StoredVersions(store, a.tablet_id, a.segment_id) : v <= a.version}
        IN /\ (last.status = "NotFound") <=> (cand = {})
           /\ cand # {} =>
                /\ last.status = "OK"
                /\ last.out.delvec.version = Max(cand)
                /\ DelVectorSave(last.out.delvec)
                       = StoredDelVec(store, a.tablet_id, a.segment_id, Max(cand))

\* C6: whenever the segment has a stored delete vector, get_del_vector sets
\* latest_version to the greatest stored version, found or not
C6_LatestVersionIsGreatestStored ==
    last.op = "get_del_vector" =>
        LET a == last.args
            S == StoredVersions(store, a.tablet_id, a.segment_id)
        IN S # {} => last.out.latest_version = Max(S)

\* C7: a successful delete_del_vector_range with start_version < end_version removes
\* exactly the records of that (tablet, segment) with start_version <= version <
\* end_version; every other record keeps its key and value
C7_RangeDeleteRemovesExactlyTheRange ==
    (/\ last.op = "delete_del_vector_range"
     /\ last.status = "OK"
     /\ last.args.start_version < last.args.end_version) =>
        LET a == last.args
            gone == {encode_del_vector_key(a.tablet_id, a.segment_id, v) :
                        v \in {x \in StoredVersions(pre, a.tablet_id, a.segment_id) :
                                  a.start_version <= x /\ x < a.end_version}}
        IN /\ DOMAIN store = (DOMAIN pre) \ gone
           /\ \A k \in DOMAIN store : store[k] = pre[k]

\* a range delete from version 0 that removed versions 0 and 1 and kept version 2
C7_Witness ==
    /\ last.op = "delete_del_vector_range"
    /\ last.status = "OK"
    /\ last.args.start_version = 0
    /\ last.args.end_version = 2
    /\ StoredVersions(pre, last.args.tablet_id, last.args.segment_id) = {0, 1, 2}
    /\ StoredVersions(store, last.args.tablet_id, last.args.segment_id) = {2}

\* C8: with start_version = end_version the call returns OK, with start_version >
\* end_version it returns InvalidArgument; either way the store is unchanged and no
\* batch is submitted
C8_EmptyOrInvertedRangeIsRejectedEarly ==
    last.op = "delete_del_vector_range" =>
        /\ last.args.start_version = last.args.end_version =>
              last.status = "OK" /\ store = pre /\ last.batches = 0
        /\ last.args.start_version > last.args.end_version =>
              last.status = "InvalidArgument" /\ store = pre /\ last.batches = 0

\* an inverted range over a segment that holds records at both ends of it
C8_Witness ==
    /\ last.op = "delete_del_vector_range"
    /\ last.args.start_version > last.args.end_version
    /\ {last.args.start_version, last.args.end_version}
           \subseteq StoredVersions(store, last.args.tablet_id, last.args.segment_id)
    /\ last.status = "InvalidArgument"

\* the entries list_del_vector is to return, as a set of <<segment, version>>
ExpectedList(s, tablet_id, max_version) ==
    {<<g[2], Max({v \in StoredVersions(s, g[1], g[2]) : v < max_version})>> :
        g \in {x \in DvSegments : /\ x[1] = tablet_id
                                  /\ \E v \in StoredVersions(s, x[1], x[2]) : v < max_version}}

\* C9: list_del_vector returns, in ascending segment order, exactly one entry per
\* segment of the tablet with a stored version below max_version, carrying the
\* greatest such version
C9_ListReturnsLatestBelowMaxPerSegment ==
    last.op = "list_del_vector" =>
        LET ret == last.out.ret
            want == ExpectedList(store, last.args.tablet_id, last.args.max_version)
        IN /\ {ret[i] : i \in 1..Len(ret)} = want
           /\ Len(ret) = Cardinality(want)
           /\ \A i \in 1..(Len(ret) - 1) : ret[i][1] < ret[i + 1][1]

(***************************************************************************)
(* Properties of the mutating operations (checked under Spec)              *)
(***************************************************************************)
\* whether key k is a key of tablet_id in one of the five families
BelongsTo(k, tablet_id) ==
    LET d == IF StartsWith(k, HEADER_PREFIX) THEN decode_tablet_meta_key(k)
             ELSE IF StartsWith(k, TABLET_META_LOG_PREFIX) THEN decode_meta_log_key(k)
             ELSE IF StartsWith(k, TABLET_META_ROWSET_PREFIX) THEN decode_meta_rowset_key(k)
             ELSE IF StartsWith(k, TABLET_META_PENDING_ROWSET_PREFIX)
                  THEN decode_meta_pending_rowset_key(k)
             ELSE IF StartsWith(k, TABLET_DELVEC_PREFIX)
                  THEN [ok |-> TRUE, tablet_id |-> decode_del_vector_key(k).tablet_id, id |-> 0]
             ELSE DecodeFail
    IN d.ok /\ d.tablet_id = tablet_id

TabletKeys(s, tablet_id) == {k \in DOMAIN s : BelongsTo(k, tablet_id)}

HeaderKeys(s, tablet_id) == {k \in TabletKeys(s, tablet_id) : StartsWith(k, HEADER_PREFIX)}

\* the tablet has a header in s and each of its headers is a primary-key header
IsPrimaryTablet(s, tablet_id) ==
    /\ HeaderKeys(s, tablet_id) # {}
    /\ \A k \in HeaderKeys(s, tablet_id) :
          TabletMetaParse(s[k]).ok /\ TabletMetaParse(s[k]).pb.keys_type = "PRIMARY_KEYS"

MutatingOps ==
    {"save", "rowset_commit", "apply_rowset_commit", "pending_rowset_commit", "rowset_delete",
     "delete_del_vector_range", "remove", "remove_schema", "load_json_meta"}

\* C4: when the write of the batch fails, a mutating operation returns an error and
\* the store holds exactly the records it held before the call
C4_FailedBatchLeavesStoreUnchanged ==
    (/\ last.op \in MutatingOps
     /\ last.batches = 1
     /\ ~last.args.io_ok) =>
        /\ last.status # "OK"
        /\ store = pre

\* a failed remove of a primary-key tablet that has records besides its header
C4_Witness ==
    /\ last.op = "remove"
    /\ ~last.args.io_ok
    /\ last.status = "IOError"
    /\ IsPrimaryTablet(pre, last.args.tablet_id)
    /\ Cardinality(TabletKeys(pre, last.args.tablet_id)) > 1
    /\ store = pre

\* C10: after remove(tablet_id) succeeds on a primary-key tablet, a full scan of the
\* store finds no key of that tablet in any of the five families
C10_RemoveLeavesNoKeyOfTheTablet ==
    (/\ last.op = "remove"
     /\ last.status = "OK"
     /\ IsPrimaryTablet(pre, last.args.tablet_id)) =>
        TabletKeys(store, last.args.tablet_id) = {}

\* the keys of tablet_id in s that are no header keys
DependentKeys(s, tablet_id) == TabletKeys(s, tablet_id) \ HeaderKeys(s, tablet_id)

\* the header of (tablet_id, schema_hash) in s is a primary-key header
IsPrimaryHeader(s, tablet_id, schema_hash) ==
    /\ encode_tablet_meta_key(tablet_id, schema_hash) \in DOMAIN s
    /\ TabletMetaParse(s[encode_tablet_meta_key(tablet_id, schema_hash)]).ok
    /\ TabletMetaParse(s[encode_tablet_meta_key(tablet_id, schema_hash)]).pb.keys_type = "PRIMARY_KEYS"

\* C11: a successful remove(tablet_id, schema_hash) on a tablet whose header at that
\* schema hash is primary-key deletes the header and, in the same batch, clears the
\* log, rowset, pending-rowset and delete-vector records of the tablet
C11_RemoveWithSchemaHashClearsTheTablet ==
    (/\ last.op = "remove_schema"
     /\ last.status = "OK"
     /\ IsPrimaryHeader(pre, last.args.tablet_id, last.args.schema_hash)) =>
        /\ encode_tablet_meta_key(last.args.tablet_id, last.args.schema_hash) \notin DOMAIN store
        /\ DependentKeys(store, last.args.tablet_id) = {}
        /\ last.batches = 1

(***************************************************************************)
(* SpecSave: headers saved over the logs of tablets 1 and 2 and over one   *)
(* record of each other family.  A log id of -1 is the int64_t that        *)
(* encode_meta_log_key takes as UINT64_MAX.                                *)
(***************************************************************************)
SaveLogIds == {0, 1, 2, -1}

SaveMetas ==
    {PrimaryMeta(1, n) : n \in {0, 1, 2, UINT64_MAX}}
        \cup {PrimaryMeta(2, 1),
              [PrimaryMeta(1, 2) EXCEPT !.has_next_log_id = FALSE],
              DupMeta(1, FALSE),
              [DupMeta(1, TRUE) EXCEPT !.has_next_log_id = TRUE, !.next_log_id = 2]}

NextSave ==
    \/ \E m \in SaveMetas, io_ok \in BOOLEAN :
          Save(m.tablet_id, m.schema_hash, m, io_ok)
    \/ \E t \in {1, 2}, l \in SaveLogIds :
          Room /\ ApplyRowsetCommit(t, l, [major |-> 1, minor |-> 0], <<>>, TRUE)
    \/ Room /\ RowsetCommit(1, 1, Edit(1), Rowset(1, 5), <<>>, TRUE)
    \/ Room /\ PendingRowsetCommit(1, 2, Rowset(2, 6), <<>>, TRUE)
    \/ Room /\ SetDelVector(1, 1, DelVec(1, 3), TRUE)
    \/ \E t \in {1, 2} : Remove(t, TRUE)

SpecSave == Init /\ [][NextSave]_vars

(***************************************************************************)
(* Properties of save (checked under SpecSave)                             *)
(***************************************************************************)
\* the log keys of tablet_id in s with a log id below n
LogKeysBelow(s, tablet_id, n) ==
    {k \in DOMAIN s : /\ StartsWith(k, TABLET_META_LOG_PREFIX)
                      /\ decode_meta_log_key(k).ok
                      /\ decode_meta_log_key(k).tablet_id = tablet_id
                      /\ decode_meta_log_key(k).id < n}

\* C12: after a successful save of a primary-key header with next_log_id = n the
\* header record equals the given header, the tablet has no log entry with id < n,
\* every other record is unchanged, and one batch was written
C12_SavePrunesExactlyTheLogBelowNextLogId ==
    (/\ last.op = "save"
     /\ last.status = "OK"
     /\ last.args.meta_pb.keys_type = "PRIMARY_KEYS"
     /\ last.args.meta_pb.has_updates
     /\ last.args.meta_pb.has_next_log_id) =>
        LET a == last.args
            hkey == encode_tablet_meta_key(a.tablet_id, a.schema_hash)
            n == a.meta_pb.next_log_id
        IN /\ hkey \in DOMAIN store
           /\ TabletMetaParse(store[hkey]) = [ok |-> TRUE, pb |-> a.meta_pb]
           /\ LogKeysBelow(store, a.tablet_id, n) = {}
           /\ DOMAIN store = ((DOMAIN pre) \ LogKeysBelow(pre, a.tablet_id, n)) \cup {hkey}
           /\ \A k \in (DOMAIN store) \ {hkey} : store[k] = pre[k]
           /\ last.batches = 1

\* a save with next_log_id 1 over the logs 0 and 1 of the tablet and a log 0 of
\* the other tablet: log 0 is pruned, the other two are kept
C12_Witness ==
    /\ last.op = "save"
    /\ last.status = "OK"
    /\ last.args.meta_pb = PrimaryMeta(1, 1)
    /\ {encode_meta_log_key(1, 0), encode_meta_log_key(1, 1), encode_meta_log_key(2, 0)}
           \subseteq DOMAIN pre
    /\ encode_meta_log_key(1, 0) \notin DOMAIN store
    /\ {encode_meta_log_key(1, 1), encode_meta_log_key(2, 0)} \subseteq DOMAIN store

\* C13: save of a header that is not primary-key and carries update state returns
\* InvalidArgument, writes no batch and leaves the store unchanged
C13_SaveRejectsUpdatesOnNonPrimaryHeader ==
    (/\ last.op = "save"
     /\ last.args.meta_pb.keys_type # "PRIMARY_KEYS"
     /\ last.args.meta_pb.has_updates) =>
        /\ last.status = "InvalidArgument"
        /\ store = pre
        /\ last.batches = 0

\* a rejected save whose next_log_id lies above a stored log entry of the tablet,
\* over a header already stored at its key
C13_Witness ==
    /\ last.op = "save"
    /\ last.status = "InvalidArgument"
    /\ last.args.meta_pb.has_next_log_id
    /\ LogKeysBelow(pre, last.args.tablet_id, last.args.meta_pb.next_log_id) # {}
    /\ encode_tablet_meta_key(last.args.tablet_id, last.args.schema_hash) \in DOMAIN pre
    /\ store = pre

(***************************************************************************)
(* SpecApply: apply_rowset_commit on tablet 1 with the least and greatest  *)
(* versions and segment ids, over delete vectors written before            *)
(***************************************************************************)
MaxApplied == 2

ApplyVersions ==
    {[major |-> 0, minor |-> 0], [major |-> 1, minor |-> 1], [major |-> INT64_MAX, minor |-> 0]}

\* the (segment, delete vector) pairs given to apply_rowset_commit; the version a
\* delete vector carries need not be the version applied
ApplyPairs ==
    {<<>>,
     <<<<0, DelVec(1, 3)>>>>,
     <<<<0, DelVec(2, 4)>>, <<1, DelVec(2, 5)>>>>,
     <<<<UINT32_MAX, DelVec(0, 6)>>>>}

NextApply ==
    \/ \E v \in ApplyVersions, d \in ApplyPairs, io_ok \in BOOLEAN :
          /\ Cardinality(DelVecKeys(store)) < MaxApplied
          /\ ApplyRowsetCommit(1, 0, v, d, io_ok)
    \/ /\ Cardinality(DelVecKeys(store)) < MaxApplied
       /\ SetDelVector(1, 0, DelVec(2, 7), TRUE)
    \/ \E g \in {0, UINT32_MAX}, q \in {0, 1, INT64_MAX}, l \in LatestIns :
          GetDelVector(1, g, q, l)
    \/ \E g \in {0, 1} : RowsetDelete(1, g, 1, TRUE)

SpecApply == Init /\ [][NextApply]_vars

(***************************************************************************)
(* Properties of apply_rowset_commit (checked under SpecApply)             *)
(***************************************************************************)
\* what a get_del_vector of (tablet_id, segment_id, version) on s returns
GetFrom(s, tablet_id, segment_id, version) ==
    get_del_vector(s, tablet_id, segment_id, version, -1)

\* C14: after a successful apply_rowset_commit the log entry at (tablet, log_id)
\* holds an apply operation with the version, every pair's delete vector is stored at
\* (tablet, segment, version.major), get_del_vector at that version returns it with
\* actual version version.major, and one batch was written
C14_ApplyWritesLogAndReadableDelVectors ==
    (last.op = "apply_rowset_commit" /\ last.status = "OK") =>
        LET a == last.args
            logkey == encode_meta_log_key(a.tablet_id, a.logid)
        IN /\ logkey \in DOMAIN store
           /\ TabletMetaLogParse(store[logkey]) =
                  [ok |-> TRUE, type |-> "OP_APPLY", version |-> a.version, creation_time |-> 0]
           /\ \A i \in 1..Len(a.delvecs) :
                 LET seg == a.delvecs[i][1]
                     dv == a.delvecs[i][2]
                     key == encode_del_vector_key(a.tablet_id, seg, a.version.major)
                     got == GetFrom(store, a.tablet_id, seg, a.version.major)
                 IN /\ key \in DOMAIN store
                    /\ store[key] = DelVectorSave(dv)
                    /\ got.status = "OK"
                    /\ got.out.delvec = [version |-> a.version.major, bits |-> dv.bits]
           /\ last.batches = 1

(***************************************************************************)
(* SpecRowsetDelete: rowset_delete over rowsets and delete vectors of      *)
(* tablet 1 at the first and last segment ids and versions, with tablet 2  *)
(* as a neighbour                                                          *)
(***************************************************************************)
\* (tablet, segment, version) of the delete vectors written
RdRecords ==
    ({1} \X {0, 1, 2} \X {0, INT64_MAX})
        \cup {<<1, UINT32_MAX, 1>>, <<1, UINT32_MAX - 1, 1>>, <<2, 1, 1>>}

\* (rowset_id, segments) of the deletes
RdDeletes == {<<1, 0>>, <<1, 1>>, <<0, 2>>, <<0, UINT32_MAX>>, <<UINT32_MAX, 0>>}

NextRowsetDelete ==
    \/ \E r \in RdRecords :
          Room /\ SetDelVector(r[1], r[2], DelVec(r[3], 3), TRUE)
    \/ \E t \in {1, 2}, g \in {1, 2} :
          Room /\ RowsetCommit(t, 0, Edit(1), Rowset(g, 5), <<>>, TRUE)
    \/ \E d \in RdDeletes, io_ok \in BOOLEAN :
          RowsetDelete(1, d[1], d[2], io_ok)

SpecRowsetDelete == Init /\ [][NextRowsetDelete]_vars

(***************************************************************************)
(* Properties of rowset_delete (checked under SpecRowsetDelete)            *)
(***************************************************************************)
\* the delete-vector keys of s of the segments lo .. hi - 1 of tablet_id
DelVecKeysOfSegments(s, tablet_id, lo, hi) ==
    {k \in DelVecKeys(s) : /\ decode_del_vector_key(k).tablet_id = tablet_id
                           /\ lo <= decode_del_vector_key(k).segment_id
                           /\ decode_del_vector_key(k).segment_id < hi}

\* C15: a successful rowset_delete with rowset_id + segment_count within 32 bits
\* deletes the rowset record and, when segment_count > 0, every delete vector of the
\* segments rowset_id .. rowset_id + segment_count - 1; every other record is unchanged
C15_RowsetDeleteRemovesItsSegmentsOnly ==
    (/\ last.op = "rowset_delete"
     /\ last.status = "OK"
     /\ last.args.rowset_id + last.args.segments <= UINT32_MAX) =>
        LET a == last.args
            gone == {encode_meta_rowset_key(a.tablet_id, a.rowset_id)}
                        \cup DelVecKeysOfSegments(pre, a.tablet_id, a.rowset_id,
                                                  a.rowset_id + a.segments)
        IN /\ DOMAIN store = (DOMAIN pre) \ gone
           /\ \A k \in DOMAIN store : store[k] = pre[k]

\* a delete of rowset 1 with one segment that removed the rowset record and the
\* delete vector of segment 1 at version 0 and kept the delete vector of segment 2
C15_Witness ==
    /\ last.op = "rowset_delete"
    /\ last.status = "OK"
    /\ last.args.rowset_id = 1
    /\ last.args.segments = 1
    /\ encode_meta_rowset_key(1, 1) \in DOMAIN pre
    /\ encode_del_vector_key(1, 1, 0) \in DOMAIN pre
    /\ encode_del_vector_key(1, 2, INT64_MAX) \in DOMAIN pre
    /\ encode_meta_rowset_key(1, 1) \notin DOMAIN store
    /\ encode_del_vector_key(1, 1, 0) \notin DOMAIN store
    /\ encode_del_vector_key(1, 2, INT64_MAX) \in DOMAIN store

(***************************************************************************)
(* SpecPending: pending commits and their deletes on tablet 1, with the    *)
(* least and greatest versions.  The obsolete key of a pending commit is   *)
(* empty, the key of a pending rowset (its own included) or the key of a   *)
(* rowset record.                                                          *)
(***************************************************************************)
PendingVersions == {0, 1, INT64_MAX}

PendingObsoleteKeys ==
    {<<>>, encode_meta_rowset_key(1, 1)}
        \cup {encode_meta_pending_rowset_key(1, w) : w \in PendingVersions}

NextPending ==
    \/ \E v \in PendingVersions, d \in {6, 7}, k \in PendingObsoleteKeys, io_ok \in BOOLEAN :
          PendingRowsetCommit(1, v, Rowset(1, d), k, io_ok)
    \/ PendingRowsetCommit(2, 1, Rowset(1, 6), <<>>, TRUE)
    \/ RowsetCommit(1, 0, Edit(1), Rowset(1, 5), <<>>, TRUE)
    \/ \E v \in PendingVersions, io_ok \in BOOLEAN :
          DeletePendingRowset(1, v, io_ok)
    \/ \E v \in PendingVersions, io_ok \in BOOLEAN :
          DeletePendingRowsetStaged(1, v, io_ok)
    \/ \E t \in {1, 2} : PendingRowsetIterate(t, 0)

SpecPending == Init /\ [][NextPending]_vars

(***************************************************************************)
(* Properties of the pending rowsets (checked under SpecPending)           *)
(***************************************************************************)
\* what a pending_rowset_iterate over s yields for tablet_id, with the values parsed
PendingYielded(s, tablet_id) ==
    LET y == pending_rowset_iterate(s, tablet_id, 0).out.yielded
    IN [i \in 1..Len(y) |-> <<y[i][1], RowsetMetaParse(y[i][2])>>]

\* how many times the sequence y holds x
TimesIn(y, x) == Cardinality({i \in 1..Len(y) : y[i] = x})

\* y without its entries of version
WithoutVersion(y, version) == SelectSeq(y, LAMBDA e : e[1] # version)

\* the versions pending_rowset_iterate yields over s for tablet_id, in order
PendingVersionsSeq(s, tablet_id) ==
    LET y == pending_rowset_iterate(s, tablet_id, 0).out.yielded
    IN [i \in 1..Len(y) |-> y[i][1]]

PendingCommitYieldsOnce(a) ==
    /\ TimesIn(PendingYielded(store, a.tablet_id), <<a.version, [ok |-> TRUE, pb |-> a.rowset]>>) = 1
    /\ TimesIn(PendingVersionsSeq(store, a.tablet_id), a.version) = 1
    /\ a.rowset_meta_key # <<>> => a.rowset_meta_key \notin DOMAIN store

\* a successful delete_pending_rowset, in either form, leaves the pending table as
\* it was without the version, and leaves every other record; on an absent version
\* it changes nothing
PendingDeleteIsInverse ==
    (/\ last.op \in {"delete_pending_rowset", "delete_pending_rowset_staged"}
     /\ last.args.io_ok) =>
        LET a == last.args
            pkey == encode_meta_pending_rowset_key(a.tablet_id, a.version)
        IN /\ last.status = "OK"
           /\ PendingYielded(store, a.tablet_id)
                  = WithoutVersion(PendingYielded(pre, a.tablet_id), a.version)
           /\ DOMAIN store = (DOMAIN pre) \ {pkey}
           /\ \A k \in DOMAIN store : store[k] = pre[k]

\* C16 as stated: after a successful pending_rowset_commit, for every value of the
\* obsolete key, pending_rowset_iterate yields (V, rowset) exactly once and the
\* non-empty obsolete key is absent; a following delete_pending_rowset in either form
\* restores the pending table without V and succeeds unchanged on an absent version
C16_PendingCommitAndDeleteForEveryObsoleteKey ==
    /\ (last.op = "pending_rowset_commit" /\ last.status = "OK") =>
           PendingCommitYieldsOnce(last.args)
    /\ PendingDeleteIsInverse

\* C16 amended: the same for every obsolete key other than the key of the pending
\* rowset record the call writes
C16_PendingCommitAndDeleteForForeignObsoleteKey ==
    /\ (/\ last.op = "pending_rowset_commit"
        /\ last.status = "OK"
        /\ last.args.rowset_meta_key
               # encode_meta_pending_rowset_key(last.args.tablet_id, last.args.version)) =>
           PendingCommitYieldsOnce(last.args)
    /\ PendingDeleteIsInverse

\* a pending commit that replaced the rowset pending at its version and removed the
\* pending rowset at its obsolete key, leaving the rowset record of the tablet
C16_Witness ==
    /\ last.op = "pending_rowset_commit"
    /\ last.status = "OK"
    /\ last.args.version = INT64_MAX
    /\ last.args.rowset_meta_key = encode_meta_pending_rowset_key(1, 0)
    /\ last.args.rowset_meta_key \in DOMAIN pre
    /\ encode_meta_pending_rowset_key(1, INT64_MAX) \in DOMAIN pre
    /\ pre[encode_meta_pending_rowset_key(1, INT64_MAX)] # RowsetMetaSerialize(last.args.rowset)
    /\ encode_meta_rowset_key(1, 1) \in DOMAIN store
    /\ PendingCommitYieldsOnce(last.args)

(***************************************************************************)
(* SpecCodec: the key codecs applied to encoded and to malformed keys.     *)
(***************************************************************************)
CodecTabletIds == {0, 1, INT64_MAX}
CodecSchemaHashes == {0, 1, -1, INT32_MAX}
CodecLogIds == {0, 1, UINT64_MAX}
CodecSegmentIds == {0, 1, UINT32_MAX}
CodecVersions == {0, 1, INT64_MAX - 1, INT64_MAX}

\* a key without its last byte, with one more byte, cut down to prefix, and no key
Malformed(key, prefix) ==
    {SubSeq(key, 1, Len(key) - 1), key \o <<0>>, key \o <<0, 0>>, prefix, <<>>}

MalformedHeaderKeys ==
    {HEADER_PREFIX \o rest : rest \in {<<49, 50>>,                \* "12"
                                       <<120, 95, 49>>,            \* "x_1"
                                       <<49, 95, 120>>,            \* "1_x"
                                       <<49, 95>>,                 \* "1_"
                                       <<95, 49>>,                 \* "_1"
                                       <<49, 95, 50, 95, 51>>,     \* "1_2_3"
                                       <<49, 120, 95, 50>>,        \* "1x_2"
                                       <<45, 95, 49>>,             \* "-_1"
                                       <<>>}}

CodecHeaderKeys ==
    {encode_tablet_meta_key(t, h) : t \in CodecTabletIds, h \in CodecSchemaHashes}
        \cup MalformedHeaderKeys \cup {<<>>}

CodecLogKeys ==
    LET good == {encode_meta_log_key(t, l) : t \in CodecTabletIds, l \in CodecLogIds}
    IN good \cup UNION {Malformed(k, TABLET_META_LOG_PREFIX) : k \in good}

CodecRowsetKeys ==
    LET good == {encode_meta_rowset_key(t, r) : t \in CodecTabletIds, r \in CodecSegmentIds}
    IN good \cup UNION {Malformed(k, TABLET_META_ROWSET_PREFIX) : k \in good}

CodecPendingKeys ==
    LET good == {encode_meta_pending_rowset_key(t, v) : t \in CodecTabletIds, v \in CodecVersions}
    IN good \cup UNION {Malformed(k, TABLET_META_PENDING_ROWSET_PREFIX) : k \in good}

CodecDelVecKeys ==
    LET good == {encode_del_vector_key(t, g, v) :
                     t \in CodecTabletIds, g \in CodecSegmentIds, v \in CodecVersions}
    IN good \cup UNION {Malformed(k, TABLET_DELVEC_PREFIX) : k \in good}

\* what may lie in memory after a key shorter than the fixed length
Beyonds(key) ==
    IF Len(key) >= DelVecKeyLength THEN {<<>>}
    ELSE {[i \in 1..(DelVecKeyLength - Len(key)) |-> b] : b \in {0, 255}}

NextCodec ==
    \/ \E key \in CodecHeaderKeys : DecodeTabletMetaKey(key)
    \/ \E key \in CodecLogKeys : DecodeMetaLogKey(key)
    \/ \E key \in CodecRowsetKeys : DecodeMetaRowsetKey(key)
    \/ \E key \in CodecPendingKeys : DecodeMetaPendingRowsetKey(key)
    \/ \E key \in CodecDelVecKeys, build \in Builds :
          \E beyond \in Beyonds(key) : DecodeDelVectorKey(key, build, beyond)
    \/ \E g1 \in CodecSegmentIds, v1 \in CodecVersions,
          g2 \in CodecSegmentIds, v2 \in CodecVersions :
          CompareDelVectorKeys(1, g1, v1, g2, v2)

SpecCodec == Init /\ [][NextCodec]_vars

Decoded(op, key, tablet_id, id) ==
    (last.op = op /\ last.args.key = key) =>
        /\ last.status = "OK"
        /\ last.out = [tablet_id |-> tablet_id, id |-> id]

\* C17: for each of the five key families, decoding the encoding of ids succeeds
\* with exactly those ids, zero and the greatest value of every id included
C17_DecodeOfEncodeIsIdentity ==
    /\ \A t \in CodecTabletIds, h \in CodecSchemaHashes :
           Decoded("decode_tablet_meta_key", encode_tablet_meta_key(t, h), t, h)
    /\ \A t \in CodecTabletIds, l \in CodecLogIds :
           Decoded("decode_meta_log_key", encode_meta_log_key(t, l), t, l)
    /\ \A t \in CodecTabletIds, r \in CodecSegmentIds :
           Decoded("decode_meta_rowset_key", encode_meta_rowset_key(t, r), t, r)
    /\ \A t \in CodecTabletIds, v \in CodecVersions :
           Decoded("decode_meta_pending_rowset_key", encode_meta_pending_rowset_key(t, v), t, v)
    /\ \A t \in CodecTabletIds, g \in CodecSegmentIds, v \in CodecVersions :
           (/\ last.op = "decode_del_vector_key"
            /\ last.args.key = encode_del_vector_key(t, g, v)) =>
               /\ last.status = "OK"
               /\ last.out = [tablet_id |-> t, segment_id |-> g, version |-> v]

\* the header key of the greatest tablet id and schema hash decoded to them
C17_Witness ==
    /\ last.op = "decode_tablet_meta_key"
    /\ last.args.key = encode_tablet_meta_key(INT64_MAX, INT32_MAX)
    /\ last.status = "OK"
    /\ last.out = [tablet_id |-> INT64_MAX, id |-> INT32_MAX]

\* C18: for one (tablet, segment) the key of a lower version is greater in byte
\* order than the key of a higher version, and every key of a lower segment is
\* before every key of a higher segment, whatever the versions
C18_NewerVersionsSortFirstWithinASegment ==
    last.op = "compare_del_vector_keys" =>
        LET a == last.args
        IN /\ (a.segment1 = a.segment2 /\ a.version1 < a.version2) => last.out.greater
           /\ a.segment1 < a.segment2 => last.out.less

\* versions 0 and INT64_MAX of one segment compared, and two segments compared
\* with the versions the other way round
C18_Witness ==
    /\ last.op = "compare_del_vector_keys"
    /\ \/ /\ last.args.segment1 = last.args.segment2
          /\ last.args.version1 = 0
          /\ last.args.version2 = INT64_MAX
          /\ last.out.greater
          /\ ~last.out.less
       \/ /\ last.args.segment1 = 1
          /\ last.args.segment2 = UINT32_MAX
          /\ last.args.version1 = 0
          /\ last.args.version2 = INT64_MAX
          /\ last.out.less

\* a signed decimal: an optional '-' and at least one digit
IsNumeric(bytes) == ParseDigits(IF bytes # <<>> /\ Head(bytes) = 45 THEN Tail(bytes) ELSE bytes) >= 0

\* a header key whose remainder after the prefix has no '_', or has a non-numeric
\* tablet id before the first '_' or a non-numeric schema hash after it
MalformedHeaderKey(key) ==
    /\ StartsWith(key, HEADER_PREFIX)
    /\ LET rest == SubSeq(key, Len(HEADER_PREFIX) + 1, Len(key))
           sep == FindSep(rest, 1)
       IN \/ sep = 0
          \/ ~IsNumeric(SubSeq(rest, 1, sep - 1))
          \/ ~IsNumeric(SubSeq(rest, sep + 1, Len(rest)))

\* C19: decoding a malformed key returns a decode failure, never a result and never
\* a crash: a log, rowset, pending-rowset or delete-vector key of another length
\* than the family's is rejected, and so is a header key with no '_' after the
\* prefix or with a non-numeric tablet id or schema hash
C19_MalformedKeyIsRejected ==
    /\ (/\ last.op = "decode_meta_log_key"
        /\ Len(last.args.key) # Len(TABLET_META_LOG_PREFIX) + SizeofU64 * 2) =>
           last.status = "DecodeFailure"
    /\ (/\ last.op = "decode_meta_rowset_key"
        /\ Len(last.args.key) # Len(TABLET_META_ROWSET_PREFIX) + SizeofU64 + SizeofU32) =>
           last.status = "DecodeFailure"
    /\ (/\ last.op = "decode_meta_pending_rowset_key"
        /\ Len(last.args.key) # Len(TABLET_META_PENDING_ROWSET_PREFIX) + SizeofU64 * 2) =>
           last.status = "DecodeFailure"
    /\ (/\ last.op = "decode_del_vector_key"
        /\ Len(last.args.key) # DelVecKeyLength) =>
           last.status = "DecodeFailure"
    /\ (/\ last.op = "decode_tablet_meta_key"
        /\ MalformedHeaderKey(last.args.key)) =>
           last.status = "DecodeFailure"

(***************************************************************************)
(* SpecApplied: pending_rowset_commit, rowset_commit and                   *)
(* delete_pending_rowset on one tablet, with the history of the versions   *)
(* applied kept in seen:                                                   *)
(*   applied   - for each rowset key written by a successful rowset_commit,*)
(*               the edit version major of the last such commit            *)
(*   repending - the versions given to a successful pending_rowset_commit  *)
(*               since the last successful rowset_commit at that version   *)
(***************************************************************************)
NoHistory == [applied |-> {}, repending |-> {}]

AfterRowsetCommit(h, tablet_id, edit, rowset, status) ==
    IF status # "OK" THEN h
    ELSE LET rkey == encode_meta_rowset_key(tablet_id, rowset.rowset_seg_id)
         IN [applied |-> {e \in h.applied : e.key # rkey}
                             \cup {[key |-> rkey, tablet_id |-> tablet_id,
                                    major |-> edit.version.major]},
             repending |-> h.repending \ {<<tablet_id, edit.version.major>>}]

AfterPendingRowsetCommit(h, tablet_id, version, status) ==
    IF status # "OK" THEN h
    ELSE [h EXCEPT !.repending = @ \cup {<<tablet_id, version>>}]

ReturnsRecorded(op, args, r, h) ==
    /\ store' = r.store
    /\ pre' = store
    /\ last' = [op |-> op, args |-> args, status |-> r.status, out |-> r.out,
                batches |-> r.batches]
    /\ seen' = h
    /\ UNCHANGED <<pc, wb, call>>

RowsetCommitRecorded(tablet_id, logid, edit, rowset, rowset_meta_key, io_ok) ==
    LET r == rowset_commit(store, tablet_id, logid, edit, rowset, rowset_meta_key, io_ok)
    IN ReturnsRecorded("rowset_commit",
                       [tablet_id |-> tablet_id, logid |-> logid, edit |-> edit,
                        rowset |-> rowset, rowset_meta_key |-> rowset_meta_key,
                        io_ok |-> io_ok],
                       r, AfterRowsetCommit(seen, tablet_id, edit, rowset, r.status))

PendingRowsetCommitRecorded(tablet_id, version, rowset, rowset_meta_key, io_ok) ==
    LET r == pending_rowset_commit(store, tablet_id, version, rowset, rowset_meta_key, io_ok)
    IN ReturnsRecorded("pending_rowset_commit",
                       [tablet_id |-> tablet_id, version |-> version, rowset |-> rowset,
                        rowset_meta_key |-> rowset_meta_key, io_ok |-> io_ok],
                       r, AfterPendingRowsetCommit(seen, tablet_id, version, r.status))

DeletePendingRowsetRecorded(tablet_id, version, io_ok) ==
    ReturnsRecorded("delete_pending_rowset",
                    [tablet_id |-> tablet_id, version |-> version, io_ok |-> io_ok],
                    delete_pending_rowset(store, tablet_id, version, io_ok), seen)

InitApplied ==
    /\ store = EmptyStore
    /\ pre = EmptyStore
    /\ last = [op |-> "init", args |-> NoOut, status |-> "OK", out |-> NoOut, batches |-> 0]
    /\ pc = "idle"
    /\ wb = <<>>
    /\ call = NoOut
    /\ seen = NoHistory

AppliedVersions == {1, INT64_MAX}
AppliedRowsetIds == {1, 2}

\* no key, a pending-rowset key of the tablet and one of its rowset keys
AppliedObsoleteKeys ==
    {<<>>, encode_meta_rowset_key(1, 1), encode_meta_pending_rowset_key(1, 1)}

NextApplied ==
    \/ \E v \in AppliedVersions, g \in AppliedRowsetIds, k \in AppliedObsoleteKeys,
          io_ok \in BOOLEAN :
          RowsetCommitRecorded(1, 0, Edit(v), Rowset(g, 5), k, io_ok)
    \/ \E v \in AppliedVersions, k \in AppliedObsoleteKeys, io_ok \in BOOLEAN :
          PendingRowsetCommitRecorded(1, v, Rowset(3, 6), k, io_ok)
    \/ \E v \in AppliedVersions, io_ok \in BOOLEAN :
          DeletePendingRowsetRecorded(1, v, io_ok)

SpecApplied == InitApplied /\ [][NextApplied]_vars

\* version major is pending in s for the tablet while a rowset record that
\* rowset_commit wrote at that version is in s
PendingAndApplied(s, h, tablet_id, major) ==
    /\ encode_meta_pending_rowset_key(tablet_id, major) \in DOMAIN s
    /\ \E e \in h.applied : /\ e.tablet_id = tablet_id
                            /\ e.major = major
                            /\ e.key \in DOMAIN s

\* C20 as stated: in every state reached by pending_rowset_commit, rowset_commit and
\* delete_pending_rowset calls on a tablet, no version is both pending and applied
C20_NoVersionPendingAndApplied ==
    \A v \in AppliedVersions : ~PendingAndApplied(store, seen, 1, v)

\* a version is both pending and applied only when pending_rowset_commit was called
\* for it after the last rowset_commit at that version; rowset_commit itself leaves
\* no pending rowset at its version
OnlyPendingRowsetCommitMakesAnAppliedVersionPending ==
    /\ \A v \in AppliedVersions :
           PendingAndApplied(store, seen, 1, v) => <<1, v>> \in seen.repending
    /\ (last.op = "rowset_commit" /\ last.status = "OK") =>
           ~PendingAndApplied(store, seen, 1, last.args.edit.version.major)

(***************************************************************************)
(* Log entries (checked under Spec)                                        *)
(***************************************************************************)
LogKeys(s) == {k \in DOMAIN s : StartsWith(k, TABLET_META_LOG_PREFIX)}

\* the operations that stage a range delete over log keys
LogRangeDeletingOps == {"save", "remove", "load_json_meta"}

\* C21: a log entry is never mutated: a key of the log keeps its value until a range
\* delete (save, remove, import) removes it; no rowset_commit and no
\* apply_rowset_commit changes the value of a log entry that exists
C21_LogEntryKeepsItsValue ==
    \A k \in LogKeys(pre) :
        /\ k \notin DOMAIN store => last.op \in LogRangeDeletingOps
        /\ (k \in DOMAIN store /\ last.op \notin LogRangeDeletingOps) => store[k] = pre[k]

(***************************************************************************)
(* SpecIsolation: the mutating operations on three tablets: 1, its         *)
(* numerical neighbour 2, and 10, whose decimal id begins with that of 1.  *)
(* The records of 1 take the greatest ids of their families and those of 2 *)
(* the least, the keys on the two sides of the border between the tablets; *)
(* tablet 10 has a header only.                                            *)
(***************************************************************************)
IsolationTablets == {1, 2, 10}

\* the id of the records of tablet_id in a family whose greatest id is max
IsolationId(tablet_id, max) == IF tablet_id = 1 THEN max ELSE 0

\* the calls of the mutating operations on tablet_id: operation and arguments
IsolationCalls(tablet_id) ==
    {[op |-> "save",
      args |-> [tablet_id |-> tablet_id, schema_hash |-> 1,
                meta_pb |-> PrimaryMeta(tablet_id, UINT64_MAX), io_ok |-> TRUE]],
     [op |-> "remove", args |-> [tablet_id |-> tablet_id, io_ok |-> TRUE]],
     [op |-> "remove_schema",
      args |-> [tablet_id |-> tablet_id, schema_hash |-> 1, io_ok |-> TRUE]]}
        \cup (IF tablet_id = 10 THEN {}
              ELSE {[op |-> "rowset_commit",
                     args |-> [tablet_id |-> tablet_id,
                               logid |-> IsolationId(tablet_id, UINT64_MAX),
                               edit |-> Edit(1),
                               rowset |-> Rowset(IsolationId(tablet_id, UINT32_MAX), 5),
                               rowset_meta_key |-> <<>>, io_ok |-> TRUE]],
                    [op |-> "pending_rowset_commit",
                     args |-> [tablet_id |-> tablet_id,
                               version |-> IsolationId(tablet_id, INT64_MAX),
                               rowset |-> Rowset(1, 6), rowset_meta_key |-> <<>>,
                               io_ok |-> TRUE]],
                    [op |-> "apply_rowset_commit",
                     args |-> [tablet_id |-> tablet_id,
                               logid |-> IsolationId(tablet_id, UINT64_MAX),
                               version |-> [major |-> 1, minor |-> 0],
                               delvecs |-> <<<<IsolationId(tablet_id, UINT32_MAX), DelVec(1, 3)>>>>,
                               io_ok |-> TRUE]],
                    [op |-> "rowset_delete",
                     args |-> [tablet_id |-> tablet_id,
                               rowset_id |-> IsolationId(tablet_id, UINT32_MAX),
                               segments |-> 1, io_ok |-> TRUE]],
                    [op |-> "delete_del_vector_range",
                     args |-> [tablet_id |-> tablet_id,
                               segment_id |-> IsolationId(tablet_id, UINT32_MAX),
                               start_version |-> 1, end_version |-> 2, io_ok |-> TRUE,
                               overflow |-> "wraps"]]})

\* the operation op run with arguments a on store s
Perform(op, a, s) ==
    CASE op = "save" -> save(s, a.tablet_id, a.schema_hash, a.meta_pb, a.io_ok)
      [] op = "rowset_commit" ->
             rowset_commit(s, a.tablet_id, a.logid, a.edit, a.rowset, a.rowset_meta_key, a.io_ok)
      [] op = "pending_rowset_commit" ->
             pending_rowset_commit(s, a.tablet_id, a.version, a.rowset, a.rowset_meta_key,
                                   a.io_ok)
      [] op = "apply_rowset_commit" ->
             apply_rowset_commit(s, a.tablet_id, a.logid, a.version, a.delvecs, a.io_ok)
      [] op = "rowset_delete" ->
             rowset_delete(s, a.tablet_id, a.rowset_id, a.segments, a.io_ok)
      [] op = "delete_del_vector_range" ->
             delete_del_vector_range(s, a.tablet_id, a.segment_id, a.start_version,
                                     a.end_version, a.io_ok, a.overflow)
      [] op = "remove" -> remove(s, a.tablet_id, a.io_ok)
      [] op = "remove_schema" -> remove_schema(s, a.tablet_id, a.schema_hash, a.io_ok)

\* whether call c adds records to the store
Adds(c) == c.op \in {"save", "rowset_commit", "pending_rowset_commit", "apply_rowset_commit"}

CallOf(op) ==
    \E t \in IsolationTablets : \E c \in IsolationCalls(t) :
        /\ c.op = op
        /\ Adds(c) => Room
        /\ Returns(c.op, c.args, Perform(c.op, c.args, store))

NextIsolation ==
    \/ CallOf("save")
    \/ CallOf("rowset_commit")
    \/ CallOf("pending_rowset_commit")
    \/ CallOf("apply_rowset_commit")
    \/ CallOf("rowset_delete")
    \/ CallOf("delete_del_vector_range")
    \/ CallOf("remove")
    \/ CallOf("remove_schema")

SpecIsolation == Init /\ [][NextIsolation]_vars

\* the records of tablet_id in s, in all five families
RecordsOf(s, tablet_id) == [k \in TabletKeys(s, tablet_id) |-> s[k]]

\* the operation on tablet A left every record of every other tablet as it was
OtherTabletsUnchanged ==
    last.op \in MutatingOps =>
        \A b \in IsolationTablets \ {last.args.tablet_id} :
            RecordsOf(store, b) = RecordsOf(pre, b)

\* the call on A that led from pre to store and any call on another tablet B give the
\* same store and the same two results in either order
Commute ==
    last.op \in MutatingOps =>
        \A b \in IsolationTablets \ {last.args.tablet_id} :
            \A cb \in IsolationCalls(b) :
                LET first == Perform(cb.op, cb.args, pre)
                    after == Perform(cb.op, cb.args, store)
                    again == Perform(last.op, last.args, first.store)
                IN /\ after.store = again.store
                   /\ after.status = first.status
                   /\ again.status = last.status

\* C22: a mutating operation on tablet A leaves every record of a distinct tablet B
\* unchanged in all five families, also when the decimal id of A begins that of B and
\* when the ids are adjacent; so operations on A and on B give the same final store
\* in either order
C22_OperationsOnDistinctTabletsAreIndependent ==
    /\ OtherTabletsUnchanged
    /\ Commute

\* remove of primary-key tablet 1 cleared records of 1 while its neighbour 2, holding
\* records, kept them
C22_Witness ==
    /\ last.op = "remove"
    /\ last.status = "OK"
    /\ last.args.tablet_id = 1
    /\ IsPrimaryTablet(pre, 1)
    /\ DependentKeys(pre, 1) # {}
    /\ HeaderKeys(store, 1) = {}
    /\ TabletKeys(store, 2) # {}
    /\ RecordsOf(store, 2) = RecordsOf(pre, 2)

(***************************************************************************)
(* SpecJson: export and import of the metadata of primary-key tablet 1,    *)
(* whose records take the least and the greatest ids of their families.    *)
(***************************************************************************)
\* <<log id, rowset_seg_id>> of the rowsets committed
JsonCommits == {<<0, 0>>, <<UINT64_MAX, UINT32_MAX>>}

\* documents given to load_json_meta: one listing a record of each family, one
\* listing the header only
JsonDocs ==
    {[valid |-> TRUE, wrapped |-> TRUE, tablet_meta |-> PrimaryMeta(1, 2),
      applied_rs_metas |-> <<Rowset(0, 7)>>,
      pending_rs_metas |-> <<[version |-> INT64_MAX, rs_meta |-> Rowset(1, 8)]>>,
      tablet_meta_logs |-> <<[logid |-> 0,
                              tablet_meta_log |-> [type |-> "OP_APPLY",
                                                   version |-> [major |-> 1, minor |-> 0],
                                                   creation_time |-> 0]]>>,
      del_vectors |-> <<[version |-> 1, segment_id |-> UINT32_MAX,
                         base64_val |-> Base64Encode(DelVectorSave(DelVec(1, 4)))]>>],
     [valid |-> TRUE, wrapped |-> TRUE, tablet_meta |-> PrimaryMeta(1, 2),
      applied_rs_metas |-> <<>>, pending_rs_metas |-> <<>>,
      tablet_meta_logs |-> <<>>, del_vectors |-> <<>>]}

\* bytes past the end of a delete-vector key
ZerosBeyond == [i \in 1..DelVecKeyLength |-> 0]

NextJson ==
    \/ Room /\ Save(1, 1, PrimaryMeta(1, 0), TRUE)
    \/ \E c \in JsonCommits :
          Room /\ RowsetCommit(1, c[1], Edit(1), Rowset(c[2], 5), <<>>, TRUE)
    \/ \E v \in {1, INT64_MAX} :
          Room /\ PendingRowsetCommit(1, v, Rowset(1, 6), <<>>, TRUE)
    \/ \E g \in {0, UINT32_MAX} :
          Room /\ SetDelVector(1, g, DelVec(1, 3), TRUE)
    \/ \E build \in Builds : GetJsonMeta(1, build, ZerosBeyond)
    \/ \E io_ok \in BOOLEAN : LoadExported(io_ok)
    \/ \E d \in JsonDocs, io_ok \in BOOLEAN : LoadJsonMeta(d, io_ok)
    \/ Remove(1, TRUE)

SpecJson == Init /\ [][NextJson]_vars

\* C23: for a primary-key tablet, get_json_meta followed by load_json_meta of the
\* document it wrote leaves the store with the same keys and values of the tablet in
\* all five families as before the export
C23_ExportThenImportKeepsTheRecords ==
    (/\ last.op = "load_json_meta"
     /\ last.status = "OK"
     /\ last.args.doc.wrapped
     /\ IsPrimaryTablet(pre, last.args.doc.tablet_meta.tablet_id)
     /\ \E build \in Builds :
           LET e == get_json_meta(pre, last.args.doc.tablet_meta.tablet_id, build, ZerosBeyond)
           IN e.status = "OK" /\ e.out.doc = last.args.doc) =>
        /\ RecordsOf(store, last.args.doc.tablet_meta.tablet_id)
               = RecordsOf(pre, last.args.doc.tablet_meta.tablet_id)
        /\ store = pre

\* the export of a tablet with a header and a record at the greatest id of a family,
\* imported
C23_Witness ==
    /\ last.op = "load_json_meta"
    /\ last.status = "OK"
    /\ last.args.doc.wrapped
    /\ IsPrimaryTablet(pre, 1)
    /\ get_json_meta(pre, 1, "release", ZerosBeyond).out.doc = last.args.doc
    /\ last.args.doc.tablet_meta = PrimaryMeta(1, 0)
    /\ Len(last.args.doc.applied_rs_metas) + Len(last.args.doc.pending_rs_metas)
           + Len(last.args.doc.tablet_meta_logs) + Len(last.args.doc.del_vectors) >= 3
    /\ \/ encode_meta_rowset_key(1, UINT32_MAX) \in DOMAIN store
       \/ encode_meta_pending_rowset_key(1, INT64_MAX) \in DOMAIN store
    /\ store = pre

\* the records a document lists for its tablet: key and value of each
DocRecords(doc) ==
    LET t == doc.tablet_meta.tablet_id
    IN {<<encode_tablet_meta_key(t, doc.tablet_meta.schema_hash), TabletMetaSerialize(doc.tablet_meta)>>}
       \cup {<<encode_meta_rowset_key(t, doc.applied_rs_metas[i].rowset_seg_id),
               RowsetMetaSerialize(doc.applied_rs_metas[i])>> : i \in 1..Len(doc.applied_rs_metas)}
       \cup {<<encode_meta_pending_rowset_key(t, doc.pending_rs_metas[i].version),
               RowsetMetaSerialize(doc.pending_rs_metas[i].rs_meta)>> :
                 i \in 1..Len(doc.pending_rs_metas)}
       \cup {<<encode_meta_log_key(t, doc.tablet_meta_logs[i].logid),
               TabletMetaLogSerialize(doc.tablet_meta_logs[i].tablet_meta_log)>> :
                 i \in 1..Len(doc.tablet_meta_logs)}
       \cup {<<encode_del_vector_key(t, doc.del_vectors[i].segment_id, doc.del_vectors[i].version),
               Base64Decode(doc.del_vectors[i].base64_val)>> : i \in 1..Len(doc.del_vectors)}

\* C24: after a successful import of a document with a tablet_meta wrapper, the
\* header of the tablet is the header of the document and its log, rowset,
\* pending-rowset and delete-vector records are exactly those the document lists:
\* what was there before and is not listed is gone, what is listed is present; the
\* rewrite is one batch
C24_ImportRewritesTheTablet ==
    (/\ last.op = "load_json_meta"
     /\ last.status = "OK"
     /\ last.args.doc.wrapped) =>
        /\ {<<k, store[k]>> : k \in TabletKeys(store, last.args.doc.tablet_meta.tablet_id)}
               = DocRecords(last.args.doc)
        /\ last.batches = 1


(***************************************************************************)
(* The scans over a store that holds records the codecs reject             *)
(***************************************************************************)
\* KVStore::put by another user of the meta column family
KvPut(key, value) ==
    Returns("put", [key |-> key, value |-> value], kv_put(store, key, value, TRUE) @@ [out |-> NoOut, batches |-> 0])

TraverseHeaders(take) ==
    Returns("traverse_headers", [take |-> take], traverse_headers(store, take))

TraverseMetaLogs(tablet_id, take) ==
    Returns("traverse_meta_logs", [tablet_id |-> tablet_id, take |-> take],
            traverse_meta_logs(store, tablet_id, take))

GetStats(detail, build, beyond) ==
    Returns("get_stats", [detail |-> detail, build |-> build],
            get_stats(store, detail, build, beyond))

\* a value no message parses
BadValue == <<"garbage">>

\* records a scan meets that no operation of TabletMetaManager wrote: keys with a
\* byte too many or a header key whose schema hash is no number, values that do
\* not parse, and a rowset record of the former format
ForeignRecords ==
    {<<HEADER_PREFIX \o <<49, 95, 120>>, TabletMetaSerialize(PrimaryMeta(1, 0))>>,
     <<encode_tablet_meta_key(1, 2), BadValue>>,
     <<encode_meta_log_key(1, 0) \o <<0>>, ApplyLogSerialize([major |-> 1, minor |-> 0])>>,
     <<encode_meta_log_key(1, 1), BadValue>>,
     <<encode_meta_rowset_key(1, 0) \o <<0>>, RowsetMetaSerialize(Rowset(0, 5))>>,
     <<encode_meta_rowset_key(1, 1), BadValue>>,
     <<encode_meta_pending_rowset_key(1, 1) \o <<0>>, RowsetMetaSerialize(Rowset(1, 6))>>,
     <<encode_del_vector_key(1, 0, 1) \o <<0>>, DelVectorSave(DelVec(1, 3))>>,
     <<RST_PREFIX \o <<49>>, RowsetMetaSerialize(Rowset(0, 5))>>}

NextScan ==
    \/ \E t \in {1, 3} : Room /\ Save(t, 1, PrimaryMeta(t, 0), TRUE)
    \/ \E c \in {<<0, 0>>, <<2, UINT32_MAX>>} :
          Room /\ RowsetCommit(1, c[1], Edit(1), Rowset(c[2], 5), <<>>, TRUE)
    \/ \E v \in {0, 2} : Room /\ PendingRowsetCommit(1, v, Rowset(1, 6), <<>>, TRUE)
    \/ Room /\ SetDelVector(1, 0, DelVec(1, 3), TRUE)
    \/ \E r \in ForeignRecords : Room /\ KvPut(r[1], r[2])
    \/ \E take \in {0, 1} : TraverseHeaders(take)
    \/ \E take \in {0, 1} : TraverseMetaLogs(1, take)
    \/ \E take \in {0, 1} : RowsetIterate(1, take)
    \/ \E take \in {0, 1} : PendingRowsetIterate(1, take)
    \/ \E detail \in BOOLEAN, build \in Builds : GetStats(detail, build, ZerosBeyond)

SpecScan == Init /\ [][NextScan]_vars

KeysUnder(s, prefix) == {k \in DOMAIN s : StartsWith(k, prefix)}

\* the tablets get_stats finds a header of
TabletsWithHeader(s) ==
    {decode_tablet_meta_key(k).tablet_id :
        k \in {h \in KeysUnder(s, HEADER_PREFIX) :
                  decode_tablet_meta_key(h).ok /\ TabletMetaParse(s[h]).ok}}

LogRecords(s) == {k \in KeysUnder(s, TABLET_META_LOG_PREFIX) : decode_meta_log_key(k).ok}
RowsetRecords(s) == {k \in KeysUnder(s, TABLET_META_ROWSET_PREFIX) : decode_meta_rowset_key(k).ok}
PendingRowsetRecords(s) ==
    {k \in KeysUnder(s, TABLET_META_PENDING_ROWSET_PREFIX) : decode_meta_pending_rowset_key(k).ok}
DelVectorRecords(s) == {k \in KeysUnder(s, TABLET_DELVEC_PREFIX) : Len(k) = DelVecKeyLength}

\* the records of the four families whose tablet has no header
RecordsWithoutHeader(s) ==
    {k \in LogRecords(s) : decode_meta_log_key(k).tablet_id \notin TabletsWithHeader(s)}
        \cup {k \in RowsetRecords(s) : decode_meta_rowset_key(k).tablet_id \notin TabletsWithHeader(s)}
        \cup {k \in PendingRowsetRecords(s) :
                 decode_meta_pending_rowset_key(k).tablet_id \notin TabletsWithHeader(s)}
        \cup {k \in DelVectorRecords(s) : decode_del_vector_key(k).tablet_id \notin TabletsWithHeader(s)}

\* C25: a detailed get_stats that returns tallies at least one error for every log,
\* delete-vector, rowset and pending-rowset record whose tablet has no header, and
\* counts every record of the four families
C25_RecordWithoutHeaderIsTallied ==
    (last.op = "get_stats" /\ last.args.detail /\ last.status = "OK") =>
        /\ last.out.stats.error_size >= Cardinality(RecordsWithoutHeader(pre))
        /\ last.out.stats.log_size = Cardinality(LogRecords(pre))
        /\ last.out.stats.rowset_size = Cardinality(RowsetRecords(pre))
        /\ last.out.stats.pending_rowset_size = Cardinality(PendingRowsetRecords(pre))
        /\ last.out.stats.delvec_size >= Cardinality(DelVectorRecords(pre))


\* the keys the range scan of traverse_meta_logs meets, in order
MetaLogScanKeys(s, tablet_id) ==
    iterate_range(s, encode_meta_log_key(tablet_id, 0), encode_meta_log_key(tablet_id, UINT64_MAX))

UnreadableLog(s, key) == ~decode_meta_log_key(key).ok \/ ~TabletMetaLogParse(s[key]).ok

\* position of the first entry of keys that cannot be read, 0 when there is none
FirstUnreadableLog(s, keys) ==
    IF \E i \in 1..Len(keys) : UnreadableLog(s, keys[i])
    THEN CHOOSE i \in 1..Len(keys) :
             /\ UnreadableLog(s, keys[i])
             /\ \A j \in 1..(i - 1) : ~UnreadableLog(s, keys[j])
    ELSE 0

\* C26: a traverse_meta_logs that meets a log key that does not decode or a log value
\* that does not parse returns Corruption, has passed to the visitor exactly the
\* entries before it, and leaves the store as it was
C26_UnreadableLogEntryEndsTheScan ==
    last.op = "traverse_meta_logs" =>
        LET keys == MetaLogScanKeys(pre, last.args.tablet_id)
            bad == FirstUnreadableLog(pre, keys)
        IN (bad > 0 /\ (last.args.take = 0 \/ last.args.take >= bad)) =>
               /\ last.status = "Corruption"
               /\ Len(last.out.yielded) = bad - 1
               /\ \A i \in 1..(bad - 1) :
                      last.out.yielded[i] = <<decode_meta_log_key(keys[i]).id,
                                              TabletMetaLogParse(pre[keys[i]])>>
               /\ store = pre

\* a scan that visited an entry and then met one it cannot read
C26_Witness ==
    /\ last.op = "traverse_meta_logs"
    /\ last.status = "Corruption"
    /\ Len(last.out.yielded) = 1
    /\ FirstUnreadableLog(pre, MetaLogScanKeys(pre, last.args.tablet_id)) = 2


\* position of the first entry of keys that lies in bad, 0 when there is none
FirstIn(keys, bad) ==
    IF \E i \in 1..Len(keys) : keys[i] \in bad
    THEN CHOOSE i \in 1..Len(keys) : keys[i] \in bad /\ \A j \in 1..(i - 1) : keys[j] \notin bad
    ELSE 0

\* the scan reaches position i when the visitor, which stops it at its take-th
\* record, has not stopped it before
Reaches(take, i) == i > 0 /\ (take = 0 \/ take >= i)

\* C27: a pending_rowset_iterate that meets a key under the pending-rowset prefix of
\* the tablet that does not decode returns Corruption
C27_UndecodablePendingKeyIsCorruption ==
    last.op = "pending_rowset_iterate" =>
        LET keys == iterate(pre, TABLET_META_PENDING_ROWSET_PREFIX \o be64(last.args.tablet_id))
            bad == FirstIn(keys, {k \in DOMAIN pre : ~decode_meta_pending_rowset_key(k).ok})
        IN Reaches(last.args.take, bad) => last.status = "Corruption"

\* C28: a traverse_headers that meets a key under the header prefix that does not
\* decode returns Corruption and has called the visitor for the headers before it only
C28_UndecodableHeaderKeyFailsTheScan ==
    last.op = "traverse_headers" =>
        LET keys == iterate(pre, HEADER_PREFIX)
            bad == FirstIn(keys, {k \in DOMAIN pre : ~decode_tablet_meta_key(k).ok})
        IN Reaches(last.args.take, bad) =>
               /\ last.status = "Corruption"
               /\ Len(last.out.yielded) = bad - 1

\* C29: a rowset_iterate that meets a rowset record whose value does not parse returns
\* Corruption and has passed to the visitor the records before it only
C29_UnparsableRowsetIsCorruption ==
    last.op = "rowset_iterate" =>
        LET keys == iterate(pre, TABLET_META_ROWSET_PREFIX \o be64(last.args.tablet_id))
            bad == FirstIn(keys, {k \in DOMAIN pre : ~RowsetMetaParse(pre[k]).ok})
        IN Reaches(last.args.take, bad) =>
               /\ last.status = "Corruption"
               /\ Len(last.out.yielded) = bad - 1


(***************************************************************************)
(* SpecRemoveSteps: one remove(store, tablet_id) call on tablet 1 runs     *)
(* statement by statement while a reader takes snapshots of the store.     *)
(* Calls on tablet 1 are serialized by their caller, so the other          *)
(* operations on tablet 1 run between the calls.                           *)
(***************************************************************************)
RemoveBegin(tablet_id) ==
    /\ pc = "idle"
    /\ pc' = "scan"
    /\ wb' = <<>>
    /\ call' = [tablet_id |-> tablet_id, before |-> store, is_primary |-> FALSE, cleared |-> 0,
                status |-> "running"]
    /\ seen' = NoOut
    /\ UNCHANGED <<store, pre, last>>

\* the header scan: a Delete staged for each header of the tablet
RemoveScan ==
    /\ pc = "scan"
    /\ pc' = "clear"
    /\ LET acc == remove_traverse_tabletmeta(store, iterate(store, tablet_meta_prefix(call.tablet_id)),
                                             call.tablet_id, [batch |-> <<>>, is_primary |-> FALSE])
       IN /\ wb' = acc.batch
          /\ call' = [call EXCEPT !.is_primary = acc.is_primary]
    /\ UNCHANGED <<store, pre, last, seen>>

\* the range deletes staged under if (is_primary), in their order
RemoveClears(tablet_id) ==
    <<clear_log(tablet_id), clear_del_vector(tablet_id), clear_rowset(tablet_id),
      clear_pending_rowset(tablet_id)>>

RemoveClear ==
    /\ pc = "clear"
    /\ call.is_primary
    /\ call.cleared < Len(RemoveClears(call.tablet_id))
    /\ wb' = Append(wb, RemoveClears(call.tablet_id)[call.cleared + 1])
    /\ call' = [call EXCEPT !.cleared = @ + 1]
    /\ UNCHANGED <<store, pre, last, pc, seen>>

RemoveWrite(io_ok) ==
    /\ pc = "clear"
    /\ call.is_primary => call.cleared = Len(RemoveClears(call.tablet_id))
    /\ pc' = "written"
    /\ store' = write_batch(store, wb, io_ok).store
    /\ call' = [call EXCEPT !.status = write_batch(store, wb, io_ok).status]
    /\ UNCHANGED <<pre, last, wb, seen>>

RemoveReturn ==
    /\ pc = "written"
    /\ pc' = "idle"
    /\ wb' = <<>>
    /\ call' = NoOut
    /\ seen' = NoOut
    /\ pre' = call.before
    /\ last' = [op |-> "remove", args |-> [tablet_id |-> call.tablet_id], status |-> call.status,
                out |-> NoOut, batches |-> 1]
    /\ UNCHANGED store

\* <<log id, rowset_seg_id>> of the rowsets committed to the tablet that is removed
RemoveCommits == {<<0, 0>>, <<UINT64_MAX, UINT32_MAX>>}

NextRemoveSteps ==
    \/ \E m \in {PrimaryMeta(1, 0), DupMeta(1, FALSE)} :
          pc = "idle" /\ Room /\ Save(1, 1, m, TRUE)
    \/ \E c \in RemoveCommits :
          pc = "idle" /\ Room /\ RowsetCommit(1, c[1], Edit(1), Rowset(c[2], 5), <<>>, TRUE)
    \/ \E v \in {1, INT64_MAX} :
          pc = "idle" /\ Room /\ PendingRowsetCommit(1, v, Rowset(1, 6), <<>>, TRUE)
    \/ \E g \in {0, UINT32_MAX} :
          pc = "idle" /\ Room /\ SetDelVector(1, g, DelVec(1, 3), TRUE)
    \/ RemoveBegin(1)
    \/ RemoveScan
    \/ RemoveClear
    \/ \E io_ok \in BOOLEAN : RemoveWrite(io_ok)
    \/ RemoveReturn
    \/ Read

SpecRemoveSteps == Init /\ [][NextRemoveSteps]_vars

\* the statements of remove, run one by one, leave what the whole call leaves
RemoveStepsAgree ==
    pc = "written" =>
        \E io_ok \in BOOLEAN :
            /\ store = remove(call.before, call.tablet_id, io_ok).store
            /\ call.status = remove(call.before, call.tablet_id, io_ok).status

\* C30: a reader of the store during a remove(tablet_id) of a primary-key tablet that
\* has log, rowset, pending-rowset or delete-vector records sees either the header
\* with the records or neither: never the records without the header, never the
\* header without any of the records
C30_ReaderSeesHeaderAndRecordsTogether ==
    (/\ pc # "idle"
     /\ seen # NoOut
     /\ IsPrimaryTablet(call.before, call.tablet_id)
     /\ DependentKeys(call.before, call.tablet_id) # {}) =>
        /\ ~(/\ HeaderKeys(seen.store, call.tablet_id) = {}
             /\ DependentKeys(seen.store, call.tablet_id) # {})
        /\ ~(/\ HeaderKeys(seen.store, call.tablet_id) # {}
             /\ DependentKeys(seen.store, call.tablet_id) = {})

\* the range deletes of remove reach every record of the tablet in s
ClearsReachEveryRecord(s, tablet_id) ==
    DependentKeys(ApplyBatch(s, RemoveClears(tablet_id)), tablet_id) = {}

\* where they do, the reader sees the tablet as it was before the call or not at all
ReaderSeesAllOrNothing ==
    (/\ pc # "idle"
     /\ seen # NoOut
     /\ IsPrimaryTablet(call.before, call.tablet_id)
     /\ ClearsReachEveryRecord(call.before, call.tablet_id)) =>
        RecordsOf(seen.store, call.tablet_id) \in {RecordsOf(call.before, call.tablet_id), EmptyStore}

(***************************************************************************)
(* SpecReplay: the log of tablet 1 is written by rowset_commit and         *)
(* apply_rowset_commit, pruned by save and read by traverse_meta_logs.     *)
(* seen keeps the history since the last successful save: its next_log_id, *)
(* whether the store held no log entry of the tablet at or above it, and   *)
(* the operations logged since, which then take the log ids in order.      *)
(***************************************************************************)
NoReplay == [saved |-> FALSE, n |-> 0, clean |-> TRUE, ops |-> <<>>]

\* most operations logged after a save
MaxReplay == 2

InitReplay ==
    /\ store = EmptyStore
    /\ pre = EmptyStore
    /\ last = [op |-> "init", args |-> NoOut, status |-> "OK", out |-> NoOut, batches |-> 0]
    /\ pc = "idle"
    /\ wb = <<>>
    /\ call = NoOut
    /\ seen = NoReplay

\* the log entries of tablet_id in s
MetaLogKeys(s, tablet_id) ==
    {k \in KeysUnder(s, TABLET_META_LOG_PREFIX) :
        decode_meta_log_key(k).ok /\ decode_meta_log_key(k).tablet_id = tablet_id}

\* before a save any log id may be used; after it the ids follow next_log_id
ReplayLogIds ==
    IF ~seen.saved THEN {0, 2, UINT64_MAX}
    ELSE {l \in {seen.n + Len(seen.ops)} : l <= UINT64_MAX /\ Len(seen.ops) < MaxReplay}

Logged(h, logid, log, status) ==
    IF status # "OK" \/ ~h.saved THEN h
    ELSE [h EXCEPT !.ops = Append(@, <<logid, log>>)]

SaveLogged(next_log_id, io_ok) ==
    LET r == save(store, 1, 1, PrimaryMeta(1, next_log_id), io_ok)
    IN ReturnsRecorded("save",
                       [tablet_id |-> 1, schema_hash |-> 1, meta_pb |-> PrimaryMeta(1, next_log_id),
                        io_ok |-> io_ok],
                       r,
                       IF r.status # "OK" THEN seen
                       ELSE [saved |-> TRUE, n |-> next_log_id, ops |-> <<>>,
                             clean |-> \A k \in MetaLogKeys(store, 1) :
                                           decode_meta_log_key(k).id < next_log_id])

RowsetCommitLogged(logid, edit, rowset, io_ok) ==
    LET r == rowset_commit(store, 1, logid, edit, rowset, <<>>, io_ok)
    IN ReturnsRecorded("rowset_commit",
                       [tablet_id |-> 1, logid |-> logid, edit |-> edit, rowset |-> rowset,
                        rowset_meta_key |-> <<>>, io_ok |-> io_ok],
                       r,
                       Logged(seen, logid,
                              [ok |-> TRUE, type |-> "OP_ROWSET_COMMIT", version |-> edit.version,
                               creation_time |-> edit.creation_time],
                              r.status))

ApplyRowsetCommitLogged(logid, version, io_ok) ==
    LET r == apply_rowset_commit(store, 1, logid, version, <<>>, io_ok)
    IN ReturnsRecorded("apply_rowset_commit",
                       [tablet_id |-> 1, logid |-> logid, version |-> version, delvecs |-> <<>>,
                        io_ok |-> io_ok],
                       r,
                       Logged(seen, logid,
                              [ok |-> TRUE, type |-> "OP_APPLY", version |-> version,
                               creation_time |-> 0],
                              r.status))

NextReplay ==
    \/ \E n \in {0, 1, UINT64_MAX - 1, UINT64_MAX}, io_ok \in BOOLEAN :
          Room /\ SaveLogged(n, io_ok)
    \/ \E l \in ReplayLogIds, v \in {1, 2}, io_ok \in BOOLEAN :
          Room /\ RowsetCommitLogged(l, Edit(v), Rowset(0, 5), io_ok)
    \/ \E l \in ReplayLogIds, io_ok \in BOOLEAN :
          Room /\ ApplyRowsetCommitLogged(l, [major |-> 1, minor |-> 0], io_ok)
    \/ Room /\ ApplyRowsetCommit(2, 1, [major |-> 1, minor |-> 0], <<>>, TRUE)
    \/ \E t \in {1, 2}, take \in {0, 1} : TraverseMetaLogs(t, take)

SpecReplay == InitReplay /\ [][NextReplay]_vars

\* the keys of S in increasing order of their log id
RECURSIVE ByLogId(_)
ByLogId(S) ==
    IF S = {} THEN <<>>
    ELSE LET m == CHOOSE k \in S :
                      \A j \in S : decode_meta_log_key(k).id <= decode_meta_log_key(j).id
         IN <<m>> \o ByLogId(S \ {m})

\* <<log id, entry>> of every log entry of tablet_id in s, in increasing order of log id
LogEntries(s, tablet_id) ==
    LET keys == ByLogId(MetaLogKeys(s, tablet_id))
    IN [i \in 1..Len(keys) |-> <<decode_meta_log_key(keys[i]).id, TabletMetaLogParse(s[keys[i]])>>]

\* the first take elements of entries, all of them when take = 0
Taken(entries, take) ==
    IF take = 0 \/ take > Len(entries) THEN entries ELSE SubSeq(entries, 1, take)

\* C31: traverse_meta_logs passes to the visitor the log entries of the tablet, each
\* once, in increasing order of log id, none of another tablet, until the visitor
\* returns false; the entry at log id UINT64_MAX is one of them
C31_EveryLogEntryVisitedInOrder ==
    last.op = "traverse_meta_logs" =>
        /\ last.status = "OK"
        /\ last.out.yielded = Taken(LogEntries(pre, last.args.tablet_id), last.args.take)

\* the same for the entries below the greatest log id
EveryLogEntryBelowTheGreatestIdVisited ==
    last.op = "traverse_meta_logs" =>
        /\ last.status = "OK"
        /\ last.out.yielded =
               Taken(SelectSeq(LogEntries(pre, last.args.tablet_id), LAMBDA e : e[1] < UINT64_MAX),
                     last.args.take)


\* C36: after a successful save of a primary-key header with next_log_id = n into a
\* store holding no log entry of the tablet at or above n, and successful
\* rowset_commit and apply_rowset_commit calls using the log ids n, n + 1, ... in
\* order, traverse_meta_logs yields those operations, each with its kind and
\* payload, in that order, and nothing else
C36_ReplayYieldsTheLoggedOperations ==
    (/\ seen.saved
     /\ seen.clean
     /\ last.op = "traverse_meta_logs"
     /\ last.args.tablet_id = 1
     /\ last.args.take = 0) =>
        /\ last.status = "OK"
        /\ last.out.yielded = seen.ops

\* the same when every log id used is below the greatest
ReplayBelowTheGreatestIdYieldsTheLoggedOperations ==
    (/\ seen.saved
     /\ seen.clean
     /\ seen.n + Len(seen.ops) <= UINT64_MAX
     /\ last.op = "traverse_meta_logs"
     /\ last.args.tablet_id = 1
     /\ last.args.take = 0) =>
        /\ last.status = "OK"
        /\ last.out.yielded = seen.ops
        /\ \A i \in 1..Len(seen.ops) : seen.ops[i][1] = seen.n + i - 1

\* two operations of different kinds replayed in order
TwoOperationsReplayed ==
    /\ seen.saved
    /\ seen.clean
    /\ last.op = "traverse_meta_logs"
    /\ last.args.tablet_id = 1
    /\ last.args.take = 0
    /\ Len(seen.ops) = 2
    /\ seen.ops[1][2].type # seen.ops[2][2].type
    /\ last.out.yielded = seen.ops

\* the header, log, rowset and pending-rowset records of s whose key does not decode
\* and the headers of s whose value does not parse
UnreadableRecords(s) ==
    {k \in KeysUnder(s, HEADER_PREFIX) :
        ~decode_tablet_meta_key(k).ok \/ ~TabletMetaParse(s[k]).ok}
        \cup (KeysUnder(s, TABLET_META_LOG_PREFIX) \ LogRecords(s))
        \cup (KeysUnder(s, TABLET_META_ROWSET_PREFIX) \ RowsetRecords(s))
        \cup (KeysUnder(s, TABLET_META_PENDING_ROWSET_PREFIX) \ PendingRowsetRecords(s))

\* the sum of the sizes of the values of s under keys
RECURSIVE Bytes(_, _)
Bytes(s, keys) ==
    IF keys = {} THEN 0
    ELSE LET k == CHOOSE x \in keys : TRUE IN ValueSize(s[k]) + Bytes(s, keys \ {k})

\* C32: a get_stats without detail tallies one error for each header, log, rowset
\* and pending-rowset record whose key does not decode and each header whose value
\* does not parse, leaves it out of the count and the bytes of its family, and scans on
C32_UnreadableRecordIsTalliedAndLeftOut ==
    (last.op = "get_stats" /\ ~last.args.detail /\ last.status = "OK") =>
        LET stats == last.out.stats
            headers == KeysUnder(pre, HEADER_PREFIX) \ UnreadableRecords(pre)
        IN /\ stats.error_size = Cardinality(UnreadableRecords(pre))
           /\ stats.tablet_size = Cardinality(headers)
           /\ stats.tablet_bytes = Bytes(pre, headers)
           /\ stats.log_size = Cardinality(LogRecords(pre))
           /\ stats.log_bytes = Bytes(pre, LogRecords(pre))
           /\ stats.rowset_size = Cardinality(RowsetRecords(pre))
           /\ stats.rowset_bytes = Bytes(pre, RowsetRecords(pre))
           /\ stats.pending_rowset_size = Cardinality(PendingRowsetRecords(pre))
           /\ stats.pending_rowset_bytes = Bytes(pre, PendingRowsetRecords(pre))

\* the same with the pending-rowset records whose key does not decode left out of
\* the tally
UnreadableRecordButPendingIsTallied ==
    (last.op = "get_stats" /\ ~last.args.detail /\ last.status = "OK") =>
        LET stats == last.out.stats
            headers == KeysUnder(pre, HEADER_PREFIX) \ UnreadableRecords(pre)
        IN /\ stats.error_size =
                  Cardinality(UnreadableRecords(pre) \ KeysUnder(pre, TABLET_META_PENDING_ROWSET_PREFIX))
           /\ stats.tablet_size = Cardinality(headers)
           /\ stats.tablet_bytes = Bytes(pre, headers)
           /\ stats.log_size = Cardinality(LogRecords(pre))
           /\ stats.log_bytes = Bytes(pre, LogRecords(pre))
           /\ stats.rowset_size = Cardinality(RowsetRecords(pre))
           /\ stats.rowset_bytes = Bytes(pre, RowsetRecords(pre))
           /\ stats.pending_rowset_size = Cardinality(PendingRowsetRecords(pre))
           /\ stats.pending_rowset_bytes = Bytes(pre, PendingRowsetRecords(pre))


(***************************************************************************)
(* SpecGet: the three reads of a header, on tablets with and without one   *)
(***************************************************************************)
GetTabletMeta(tablet_id, schema_hash) ==
    Returns("get_tablet_meta", [tablet_id |-> tablet_id, schema_hash |-> schema_hash],
            get_tablet_meta(store, tablet_id, schema_hash))

GetJsonMetaSchema(tablet_id, schema_hash, build, beyond) ==
    Returns("get_json_meta_schema",
            [tablet_id |-> tablet_id, schema_hash |-> schema_hash, build |-> build],
            get_json_meta_schema(store, tablet_id, schema_hash, build, beyond))

\* tablet 10 has a header whose key starts with the digits of tablet 1
NextGet ==
    \/ \E m \in {PrimaryMeta(1, 0), DupMeta(1, FALSE), PrimaryMeta(10, 0)} :
          Room /\ Save(m.tablet_id, 1, m, TRUE)
    \/ Room /\ KvPut(encode_tablet_meta_key(1, 2), BadValue)
    \/ Room /\ RowsetCommit(1, 0, Edit(1), Rowset(0, 5), <<>>, TRUE)
    \/ \E t \in {1, 10} : Remove(t, TRUE)
    \/ \E t \in {1, 2, 10}, h \in {1, 2} : GetTabletMeta(t, h)
    \/ \E t \in {1, 2, 10}, h \in {1, 2}, build \in Builds : GetJsonMetaSchema(t, h, build, ZerosBeyond)
    \/ \E t \in {1, 2, 10}, build \in Builds : GetJsonMeta(t, build, ZerosBeyond)

SpecGet == Init /\ [][NextGet]_vars

\* C33: get_tablet_meta and the two get_json_meta return NotFound for a tablet that
\* has no header in the store
C33_NoHeaderIsNotFound ==
    (/\ last.op \in {"get_tablet_meta", "get_json_meta_schema", "get_json_meta"}
     /\ HeaderKeys(pre, last.args.tablet_id) = {}) =>
        last.status = "NotFound"

\* the two reads that name the schema hash return NotFound when the store has no
\* header under that tablet id and schema hash
NoHeaderAtSchemaHashIsNotFound ==
    (/\ last.op \in {"get_tablet_meta", "get_json_meta_schema"}
     /\ encode_tablet_meta_key(last.args.tablet_id, last.args.schema_hash) \notin DOMAIN pre) =>
        last.status = "NotFound"


(***************************************************************************)
(* SpecHeaders: tablet 1 has headers under two schema hashes, primary-key  *)
(* or not, and records at the least ids of their families                  *)
(***************************************************************************)
HeaderMetas(schema_hash) ==
    {[PrimaryMeta(1, 0) EXCEPT !.schema_hash = schema_hash],
     [DupMeta(1, FALSE) EXCEPT !.schema_hash = schema_hash]}

NextHeaders ==
    \/ \E h \in {1, 2} : \E m \in HeaderMetas(h) : Room /\ Save(1, h, m, TRUE)
    \/ Room /\ Save(10, 1, PrimaryMeta(10, 0), TRUE)
    \/ Room /\ RowsetCommit(1, 0, Edit(1), Rowset(0, 5), <<>>, TRUE)
    \/ Room /\ PendingRowsetCommit(1, 1, Rowset(1, 6), <<>>, TRUE)
    \/ Room /\ SetDelVector(1, 0, DelVec(1, 3), TRUE)
    \/ \E io_ok \in BOOLEAN : Remove(1, io_ok)

SpecHeaders == Init /\ [][NextHeaders]_vars

PrimaryHeaderKeys(s, tablet_id) ==
    {k \in HeaderKeys(s, tablet_id) :
        TabletMetaParse(s[k]).ok /\ TabletMetaParse(s[k]).pb.keys_type = "PRIMARY_KEYS"}

\* C34: a successful remove(tablet_id) of a tablet with more than one header deletes
\* every header in one batch and, when at least one of the headers is primary-key,
\* clears the log, rowset, pending-rowset and delete-vector records of the tablet
C34_EveryHeaderRemovedAndRecordsCleared ==
    (/\ last.op = "remove"
     /\ last.status = "OK"
     /\ Cardinality(HeaderKeys(pre, last.args.tablet_id)) > 1) =>
        /\ HeaderKeys(store, last.args.tablet_id) = {}
        /\ last.batches = 1
        /\ PrimaryHeaderKeys(pre, last.args.tablet_id) # {} =>
               DependentKeys(store, last.args.tablet_id) = {}

\* the header scanned last
LastHeaderKey(s, tablet_id) ==
    LET keys == iterate(s, tablet_meta_prefix(tablet_id)) IN keys[Len(keys)]

\* what holds instead: every header is deleted in one batch, and the records are
\* cleared when the header scanned last is primary-key and kept when it is not
RecordsClearedAsTheLastHeaderSays ==
    (/\ last.op = "remove"
     /\ last.status = "OK"
     /\ Cardinality(HeaderKeys(pre, last.args.tablet_id)) > 1) =>
        /\ HeaderKeys(store, last.args.tablet_id) = {}
        /\ last.batches = 1
        /\ IF LastHeaderKey(pre, last.args.tablet_id) \in PrimaryHeaderKeys(pre, last.args.tablet_id)
           THEN DependentKeys(store, last.args.tablet_id) = {}
           ELSE DependentKeys(store, last.args.tablet_id) = DependentKeys(pre, last.args.tablet_id)


(***************************************************************************)
(* SpecSnapshot: delete vectors are written by set_del_vector,             *)
(* put_del_vector and apply_rowset_commit and removed by                   *)
(* delete_del_vector_range, on two segments of tablet 1 and on tablet 2    *)
(***************************************************************************)
\* a batch that holds the Put of put_del_vector, submitted by the caller
PutDelVector(tablet_id, segment_id, delvec, io_ok) ==
    Returns("put_del_vector",
            [tablet_id |-> tablet_id, segment_id |-> segment_id, delvec |-> delvec,
             io_ok |-> io_ok],
            write_batch(store, <<put_del_vector(tablet_id, segment_id, delvec)>>, io_ok)
                @@ [out |-> NoOut, batches |-> 1])

\* <<tablet, segment, version>> of the delete vectors written: four versions of
\* segment 0 of tablet 1, and one of its segment 1 and of tablet 2 as neighbours
SnapshotRecords == ({1} \X {0} \X {0, 1, 2, INT64_MAX}) \cup {<<1, 1, 1>>, <<2, 0, 1>>}
SnapshotSegments == {<<r[1], r[2]>> : r \in SnapshotRecords}
SnapshotVersions == {r[3] : r \in SnapshotRecords}
SnapshotRanges == {<<0, 1>>, <<0, 2>>, <<1, 2>>, <<2, INT64_MAX>>, <<0, INT64_MAX>>}

SnapshotDelVec(segment_id, version) == DelVec(version, 10 * segment_id + version)

NextSnapshot ==
    \/ \E r \in SnapshotRecords, io_ok \in BOOLEAN :
          /\ Cardinality(DelVecKeys(store)) < MaxDelVecs
          /\ SetDelVector(r[1], r[2], SnapshotDelVec(r[2], r[3]), io_ok)
    \/ \E v \in {1, 2} :
          /\ Cardinality(DelVecKeys(store)) < MaxDelVecs
          /\ PutDelVector(1, 0, SnapshotDelVec(0, v), TRUE)
    \/ \E v \in {1, 2} :
          /\ Cardinality(DelVecKeys(store)) < MaxDelVecs
          /\ ApplyRowsetCommit(1, 0, [major |-> v, minor |-> 0], <<<<0, SnapshotDelVec(0, v)>>>>, TRUE)
    \/ \E g \in {<<1, 0>>, <<2, 0>>}, r \in SnapshotRanges, io_ok \in BOOLEAN :
          DeleteDelVectorRange(g[1], g[2], r[1], r[2], io_ok, "wraps")

SpecSnapshot == Init /\ [][NextSnapshot]_vars

\* what get_del_vector returns for version q of the segment: the status and the
\* delete vector loaded
Answer(s, tablet_id, segment_id, q) ==
    LET r == get_del_vector(s, tablet_id, segment_id, q, -1)
    IN [status |-> r.status, delvec |-> r.out.delvec]

\* <<tablet, segment, version>> of the delete vectors the last operation wrote
WrittenDelVectors ==
    IF last.op \in {"set_del_vector", "put_del_vector"}
    THEN {<<last.args.tablet_id, last.args.segment_id, last.args.delvec.version>>}
    ELSE IF last.op = "apply_rowset_commit"
    THEN {<<last.args.tablet_id, last.args.delvecs[i][1], last.args.version.major>> :
             i \in 1..Len(last.args.delvecs)}
    ELSE {}

\* C35: a delete vector written at a version not yet stored leaves the answer of
\* get_del_vector as it was for every older version of its segment and for every
\* version of every other segment and tablet; delete_del_vector_range(start, end)
\* leaves the answer for q as it was when the version that answered q lies outside
\* [start, end), and the answers for every other segment and tablet
C35_DelVectorSnapshotsAreStable ==
    /\ (/\ WrittenDelVectors # {}
        /\ last.status = "OK"
        /\ \A w \in WrittenDelVectors : encode_del_vector_key(w[1], w[2], w[3]) \notin DOMAIN pre) =>
           \A g \in SnapshotSegments, q \in SnapshotVersions :
               (\A w \in WrittenDelVectors : <<w[1], w[2]>> = g => q < w[3]) =>
                   Answer(store, g[1], g[2], q) = Answer(pre, g[1], g[2], q)
    /\ (last.op = "delete_del_vector_range" /\ last.status = "OK") =>
           \A g \in SnapshotSegments, q \in SnapshotVersions :
               LET before == Answer(pre, g[1], g[2], q)
               IN (\/ g # <<last.args.tablet_id, last.args.segment_id>>
                   \/ /\ before.status = "OK"
                      /\ ~(/\ last.args.start_version <= before.delvec.version
                           /\ before.delvec.version < last.args.end_version)) =>
                      Answer(store, g[1], g[2], q) = before

\* a delete vector written at version 2 of a segment whose version 1 still answers
C35_Witness ==
    /\ last.op \in {"set_del_vector", "put_del_vector", "apply_rowset_commit"}
    /\ last.status = "OK"
    /\ \E w \in WrittenDelVectors :
           /\ encode_del_vector_key(w[1], w[2], w[3]) \notin DOMAIN pre
           /\ w[3] = 2
           /\ Answer(store, w[1], w[2], 1).status = "OK"
           /\ Answer(store, w[1], w[2], 1).delvec.version = 1
           /\ Answer(store, w[1], w[2], 2).delvec.version = 2

\* a range delete that removed a record and left an older one answering
RangeDeleteKeptAnAnswer ==
    /\ last.op = "delete_del_vector_range"
    /\ last.status = "OK"
    /\ store # pre
    /\ Answer(store, last.args.tablet_id, last.args.segment_id, 2).status = "OK"

(***************************************************************************)
(* The five key families                                                   *)
(***************************************************************************)
Families == {"header", "log", "rowset", "pending", "delvec"}

\* the keys the encode functions give for tablet 1 at the least and the greatest ids
FamilyKeys(f) ==
    CASE f = "header" -> {encode_tablet_meta_key(1, h) : h \in {1, INT32_MAX}}
      [] f = "log" -> {encode_meta_log_key(1, l) : l \in {0, 1, UINT64_MAX}}
      [] f = "rowset" -> {encode_meta_rowset_key(1, r) : r \in {0, UINT32_MAX}}
      [] f = "pending" -> {encode_meta_pending_rowset_key(1, v) : v \in {0, 1, INT64_MAX}}
      [] f = "delvec" -> {encode_del_vector_key(1, g, v) :
                             g \in {0, UINT32_MAX}, v \in {0, 1, INT64_MAX}}

NextFamilies ==
    \/ \E n \in {0, UINT64_MAX} : Save(1, 1, PrimaryMeta(1, n), TRUE)
    \/ \E c \in {<<1, UINT32_MAX>>, <<UINT64_MAX, 0>>} :
          Room /\ RowsetCommit(1, c[1], Edit(2), Rowset(c[2], 5), <<>>, TRUE)
    \/ \E v \in {1, INT64_MAX} : Room /\ PendingRowsetCommit(1, v, Rowset(1, 6), <<>>, TRUE)
    \/ \E d \in {<<0, 1>>, <<UINT32_MAX, 0>>} :
          Room /\ SetDelVector(1, d[1], DelVec(d[2], 3), TRUE)
    \/ Remove(1, TRUE)
    \/ \E segments \in {0, 2} : RowsetDelete(1, 0, segments, TRUE)
    \/ \E g \in {0, UINT32_MAX} : DeleteDelVectorRange(1, g, 0, INT64_MAX, TRUE, "wraps")
    \/ TraverseHeaders(0)
    \/ TraverseMetaLogs(1, 0)
    \/ RowsetIterate(1, 0)
    \/ PendingRowsetIterate(1, 0)
    \/ GetDelVector(1, 0, INT64_MAX, -1)
    \/ ListDelVector(1, INT64_MAX)

SpecFamilies == Init /\ [][NextFamilies]_vars

\* the records of s of family f
OnlyFamily(s, f) == [k \in DOMAIN s \cap FamilyKeys(f) |-> s[k]]

\* key lies in the range of a staged DeleteRange
InDeleteRange(key, op) == KeyLeq(op[2], key) /\ KeyLess(key, op[3])

\* the records of pre outside keys are in store as they were
Untouched(keys) == \A k \in DOMAIN pre \ keys : k \in DOMAIN store /\ store[k] = pre[k]

\* what the scan of the last operation answers on s
ScanOf(s) ==
    CASE last.op = "traverse_headers" -> traverse_headers(s, last.args.take)
      [] last.op = "traverse_meta_logs" ->
             traverse_meta_logs(s, last.args.tablet_id, last.args.take)
      [] last.op = "rowset_iterate" -> rowset_iterate(s, last.args.tablet_id, last.args.take)
      [] last.op = "pending_rowset_iterate" ->
             pending_rowset_iterate(s, last.args.tablet_id, last.args.take)
      [] last.op = "get_del_vector" ->
             get_del_vector(s, last.args.tablet_id, last.args.segment_id, last.args.version,
                            last.args.latest_in)
      [] last.op = "list_del_vector" ->
             list_del_vector(s, last.args.tablet_id, last.args.max_version)

ScanFamily ==
    [traverse_headers |-> "header", traverse_meta_logs |-> "log", rowset_iterate |-> "rowset",
     pending_rowset_iterate |-> "pending", get_del_vector |-> "delvec",
     list_del_vector |-> "delvec"]

\* C37: no key of one family is a key of another; a scan answers as it would on
\* the records of its own family alone; the log pruning of save, the delete vector
\* ranges of rowset_delete and delete_del_vector_range and the clear_* ranges of
\* remove reach no record of another family
C37_KeyFamiliesAreDisjoint ==
    /\ \A f \in Families, g \in Families : f # g => FamilyKeys(f) \cap FamilyKeys(g) = {}
    /\ \A k \in DOMAIN store : \E f \in Families : k \in FamilyKeys(f)
    /\ last.op \in DOMAIN ScanFamily =>
           LET r == ScanOf(OnlyFamily(pre, ScanFamily[last.op]))
           IN last.status = r.status /\ last.out = r.out
    /\ (last.op = "save" /\ last.status = "OK") =>
           Untouched(FamilyKeys("log")
                         \cup {encode_tablet_meta_key(last.args.tablet_id, last.args.schema_hash)})
    /\ (last.op = "rowset_delete" /\ last.status = "OK") =>
           Untouched(FamilyKeys("delvec")
                         \cup {encode_meta_rowset_key(last.args.tablet_id, last.args.rowset_id)})
    /\ (last.op = "delete_del_vector_range" /\ last.status = "OK") =>
           Untouched(FamilyKeys("delvec"))
    /\ \A k \in DOMAIN store :
           /\ InDeleteRange(k, clear_log(1)) => k \in FamilyKeys("log")
           /\ InDeleteRange(k, clear_rowset(1)) => k \in FamilyKeys("rowset")
           /\ InDeleteRange(k, clear_pending_rowset(1)) => k \in FamilyKeys("pending")
           /\ InDeleteRange(k, clear_del_vector(1)) => k \in FamilyKeys("delvec")

\* a save that pruned a log entry beside records of three other families
C37_Witness ==
    /\ last.op = "save"
    /\ last.status = "OK"
    /\ \E k \in FamilyKeys("log") : k \in DOMAIN pre /\ k \notin DOMAIN store
    /\ Cardinality({f \in Families \ {"log", "header"} : DOMAIN store \cap FamilyKeys(f) # {}}) = 3
====
